---- MODULE Spec2Model ----
(***************************************************************************)
(* Model of segmentdb's Memtable (storage/memtable/Memtable.py): the       *)
(* mutable store, its byte accounting, the immutable queue of FlushTasks,  *)
(* the background flush worker and close().                                *)
(*                                                                         *)
(* Every `with self._flush_signal:` block is one atomic action: the lock   *)
(* excludes every other block, so its intermediate states are not          *)
(* observable.  The flush worker's work outside the lock is a separate     *)
(* action.  Writer threads take their seq_no from the caller-side counter  *)
(* before they call put/delete, so two writers may reach _set in an order  *)
(* different from their seq_no order.                                      *)
(*                                                                         *)
(* The write-ahead log (storage/wal): WALEntry and WALHeader byte formats  *)
(* with zlib's CRC-32, the WALWriter queue and its batching worker (each   *)
(* queue operation one action), and WALReader over files of header and     *)
(* frames, whole or cut short.                                             *)
(*                                                                         *)
(* SSTables (storage/sstable): SSTableWriter.write step by step against a  *)
(* directory that can fail or crash, and SSTableReader on the result.      *)
(* lz4, xxhash and rbloom are libraries outside the repository; they are   *)
(* stood in for by a literal-only LZ4 block, a position-weighted sum and a *)
(* small bit filter without false negatives.                               *)
(*                                                                         *)
(* Specifications: Spec and FairSpec (Memtable), WalSpec (WALWriter),      *)
(* CodecSpec (WALEntry conversions), ReaderSpec (WALReader, WALHeader),    *)
(* SstSpec (SSTableWriter, SSTableReader), WalBulkSpec (WALWriter with a   *)
(* long queue), RunSpec (one thread writing 1024 entries to the Memtable), *)
(* LockSpec (Memtable at the grain of its lock and of object identity).    *)
(***************************************************************************)
EXTENDS Integers, Sequences, FiniteSets, TLC

\* ------------------------------------------------------------------ bounds
\* seq_nos handed out by the caller-side counter: 1..MaxSeq
MaxSeq == 3

\* ------------------------------------------------------------- input sets
\* writer threads (foreground callers of put/delete/get)
Writers == {"w1", "w2"}

\* keys are byte strings; len(key) is Len(key)
Keys == {<<1>>, <<1, 2>>}

\* values are named by their length only; None is the tombstone value
None == "None"
Values == {"vHalf", "vFull"}

\* len(value) for the two values: with keys of length 1 and 2 an entry
\* accounts for 2 MiB, 2 MiB + 1, 4 MiB - 1 or 4 MiB bytes
len(v) ==
    CASE v = "vHalf" -> 2 * 1024 * 1024 - 9
      [] v = "vFull" -> 4 * 1024 * 1024 - 10
      [] v = "v4K" -> 4 * 1024

\* Memtable.MAX_SIZE_BYTES
MAX_SIZE_BYTES == 4 * 1024 * 1024

\* ------------------------------------------------------------ data model
\* MemtableEntry(seq_no, value)
MemtableEntry(s, v) == [seq_no |-> s, value |-> v]

\* MemtableEntry.size_bytes
size_bytes_of_value(entry) ==
    IF entry.value # None THEN len(entry.value) ELSE 0
size_bytes(entry) == 8 + (IF entry.value # None THEN len(entry.value) ELSE 0)

\* the result of a lookup that finds nothing (Python's None for an entry)
NoEntry == [absent |-> TRUE]

\* the shutdown sentinel in the immutable queue (Python's None for a task)
NoTask == [sentinel |-> TRUE]

\* SortedDict(): a function whose domain is the set of stored keys
SortedDict == [k \in {} |-> NoEntry]

\* store[key] = entry
SetItem(st, key, entry) ==
    [k \in (DOMAIN st) \cup {key} |-> IF k = key THEN entry ELSE st[k]]

\* FlushTask(store, checkpoint_seq_no); id is the rotation index (history)
FlushTask(st, cp, n) == [store |-> st, checkpoint_seq_no |-> cp, id |-> n]

VARIABLES
    _store,            \* Memtable._store
    _size_bytes,       \* Memtable._size_bytes
    _immutable_stores, \* Memtable._immutable_stores (deque, left = head)
    workerPc,          \* flush worker: "idle" | "blocked" | "flushing" | "exited"
    task,              \* the task the worker popped (NoTask when none)
    closePc,           \* close(): "none" | "joining" | "returned"
    nextSeq,           \* caller-side seq_no counter
    pending,           \* per writer: the call it is about to make, or <<>>
    lastWrite,         \* history: per key, the entry of the last put/delete
    rotations,         \* history: number of rotations so far
    flushLog,          \* history: id and checkpoint_seq_no of each dequeued task
    rotationsAtClose,  \* history: rotations when close() enqueued the sentinel
    sstables,          \* history: stores written as SSTables by the worker
    checkpoints,       \* history: checkpoint(seq_no) calls made by the worker
    acceptedAfterClose \* history: an operation was accepted after close() returned

memVars == <<_store, _size_bytes, _immutable_stores, rotations>>
histVars == <<sstables, checkpoints>>

\* the state of WALWriter (storage/wal/WALWriter.py)
VARIABLES
    walQueue,          \* WALWriter._queue: frames and the None sentinel
    walPc,             \* _background_writer: "get" | "batching" | "write" | "fsync" | "exited"
    walBatch,          \* _background_writer local batch
    walStop,           \* the worker took the sentinel while batching
    walFile,           \* bytes written to WALWriter._fd
    walSynced,         \* number of bytes of the file covered by a completed fsync
    walClosePc,        \* WALWriter.close(): "none" | "joining" | "returned"
    walSeq,            \* caller-side seq_no counter of the appending threads
    walAccepted,       \* history: frames in the order append() queued them
    walAckedAtReturn,  \* history: walAccepted when close() returned
    walLog             \* history: the calls _write_batch made on the file

walVars == <<walQueue, walPc, walBatch, walStop, walFile, walSynced,
             walClosePc, walSeq, walAccepted, walAckedAtReturn, walLog>>

\* every variable of the Memtable
memtableVars == <<_store, _size_bytes, _immutable_stores, workerPc, task,
                  closePc, nextSeq, pending, lastWrite, rotations, flushLog,
                  rotationsAtClose, sstables, checkpoints, acceptedAfterClose>>

\* one WALEntry taken through to_bytes, a change of one byte, and from_bytes
VARIABLES
    cEntry,            \* the WALEntry
    cFrame,            \* entry.to_bytes(), possibly with one byte changed
    cKind,             \* "none" | "intact" | "payload" | "crc": what was changed
    cOut,              \* WALEntry.from_bytes(cFrame)
    cAgain             \* cOut.to_bytes()

codecVars == <<cEntry, cFrame, cKind, cOut, cAgain>>

\* a WAL file and a WALReader iterating it (storage/wal/WALReader.py)
VARIABLES
    rdEntries,         \* history: the entries whose frames were written
    rdHeader,          \* history: which header the file was given
    rdCut,             \* history: bytes of the last frame lost in the crash
    rdFile,            \* the bytes of the file
    rdPos,             \* position of WALReader._fd
    rdState,           \* "new" | "open" | "stopped" | "raised"
    rdError,           \* the exception raised, if any
    rdYielded,         \* the entries __next__ has returned
    hdrOut             \* WALHeader.from_bytes(the header bytes of the file)

readerVars == <<rdEntries, rdHeader, rdCut, rdFile, rdPos, rdState, rdError,
                rdYielded, hdrOut>>

\* one SSTableWriter.write and an SSTableReader on its result
VARIABLES
    swStore,           \* SSTableWriter.store: its items, in key order
    swPath,            \* the path argument of write
    swBytes,           \* header + blocks + index + bloom + footer, once built
    swPc,              \* position of write: "start" .. "renamed", or "failed"
                       \* (an I/O error was raised), "crashed"
    swSynced,          \* history: an fsync that covered all of swBytes returned
    swRetried,         \* history: write was called again after an I/O error
    fs,                \* the directory: path -> NoFile or the bytes of the file
    srMeta,            \* SSTableReader: footer, bloom, index; or the exception
    srGot              \* the last get: its key and what it returned or raised

sstVars == <<swStore, swPath, swBytes, swPc, swSynced, swRetried, fs, srMeta,
            srGot>>

\* the Memtable again, at the grain of its lock and of object identity: the
\* steps of acquiring and releasing _flush_signal, and stores as objects
VARIABLES
    mutex,             \* holder of _flush_signal's lock: "free", "worker", a writer
    thPc,              \* per thread: "idle" | "entering" | "locked" | "joining"
    thOp,              \* per thread: the call it is in
    wkPc,              \* worker: "entering" | "locked" | "waiting" | "notified"
                       \* | "flushing" | "exited"
    wkTask,            \* the worker's local `task`
    heap,              \* the SortedDict objects: object id -> contents
    cur,               \* self._store: an object id
    lkSize,            \* self._size_bytes
    lkQueue,           \* self._immutable_stores: tasks (store is an id), sentinel
    lkOps,             \* calls started so far
    lkClosed,          \* close() has been called
    curAtClose         \* history: self._store when close() held the lock (0: not yet)

lockVars == <<mutex, thPc, thOp, wkPc, wkTask, heap, cur, lkSize, lkQueue,
              lkOps, lkClosed, curAtClose>>

vars == <<memtableVars, walVars, codecVars, readerVars, sstVars, lockVars>>

\* what the actions of each component leave alone
notMemtable == <<walVars, codecVars, readerVars, sstVars, lockVars>>
notWal == <<memtableVars, codecVars, readerVars, sstVars, lockVars>>
notCodec == <<memtableVars, walVars, readerVars, sstVars, lockVars>>
notReader == <<memtableVars, walVars, codecVars, sstVars, lockVars>>
notSst == <<memtableVars, walVars, codecVars, readerVars, lockVars>>
notLock == <<memtableVars, walVars, codecVars, readerVars, sstVars>>

\* ------------------------------------------------------------- operators
\* Memtable.should_flush
should_flush_strict(sz) == sz > MAX_SIZE_BYTES
should_flush(sz) == sz >= MAX_SIZE_BYTES

\* Condition.notify(): wakes the worker if it is blocked in wait()
notify_lost(pc) == pc
notify(pc) == IF pc = "blocked" THEN "idle" ELSE pc

\* close, line 88: self._immutable_stores.append(None)
enqueue_final_flush(q) ==
    Append(Append(q, [store |-> cur, checkpoint_seq_no |-> 0]), NoTask)
enqueue_sentinel(q) == Append(q, NoTask)

\* deque.popleft(): the head item and the remaining queue
pop(q) == [item |-> q[Len(q)], rest |-> SubSeq(q, 1, Len(q) - 1)]
popleft(q) == [item |-> Head(q), rest |-> Tail(q)]

\* the scan of get over reversed(self._immutable_stores) from position i down
RECURSIVE scan(_, _, _)
scan(q, i, key) ==
    IF i = 0 THEN NoEntry
    ELSE IF q[i] = NoTask THEN scan(q, i - 1, key)
    ELSE IF key \in DOMAIN q[i].store THEN q[i].store[key]
    ELSE scan(q, i - 1, key)

\* Memtable.get, as a function of the state it reads under the lock
get(key) ==
    IF key \in DOMAIN _store THEN _store[key]
    ELSE scan(_immutable_stores, Len(_immutable_stores), key)

\* accounted size after the insert of _set (lines 94-99)
SizeAfterInsertKeepingOld(key, entry) ==
    _size_bytes + Len(key) + size_bytes(entry)
SizeAfterInsert(key, entry) ==
    LET removed == IF key \in DOMAIN _store
                   THEN _size_bytes - (Len(key) + size_bytes(_store[key]))
                   ELSE _size_bytes
    IN  removed + Len(key) + size_bytes(entry)

\* --------------------------------------------------------------- actions
\* Memtable.__init__
MemtableInit ==
    /\ _store = SortedDict
    /\ _size_bytes = 0
    /\ _immutable_stores = <<>>
    /\ workerPc = "idle"
    /\ task = NoTask
    /\ closePc = "none"
    /\ nextSeq = 1
    /\ pending = [w \in Writers |-> <<>>]
    /\ lastWrite = SortedDict
    /\ rotations = 0
    /\ flushLog = <<>>
    /\ rotationsAtClose = 0
    /\ sstables = <<>>
    /\ checkpoints = <<>>
    /\ acceptedAfterClose = FALSE

\* WALWriter.__init__
WALWriterInit ==
    /\ walQueue = <<>>
    /\ walPc = "get"
    /\ walBatch = <<>>
    /\ walStop = FALSE
    /\ walFile = <<>>
    /\ walSynced = 0
    /\ walClosePc = "none"
    /\ walSeq = 1
    /\ walAccepted = <<>>
    /\ walAckedAtReturn = <<>>
    /\ walLog = <<>>

\* no entry is being converted, no file is being read
CodecIdle ==
    /\ cEntry = NoEntry
    /\ cFrame = <<>>
    /\ cKind = "none"
    /\ cOut = NoEntry
    /\ cAgain = <<>>

ReaderIdle ==
    /\ rdEntries = <<>>
    /\ rdHeader = "none"
    /\ rdCut = 0
    /\ rdFile = <<>>
    /\ rdPos = 0
    /\ rdState = "new"
    /\ rdError = "none"
    /\ rdYielded = <<>>
    /\ hdrOut = NoEntry

\* pathlib paths: the name up to its suffix, and the suffix
PathInputs ==
    << [stem |-> "000001", suffix |-> ".sst"],
       [stem |-> "000001", suffix |-> ".tmp"] >>
Paths == {PathInputs[i] : i \in DOMAIN PathInputs}

\* Path.with_suffix
with_suffix(path, suffix) == [path EXCEPT !.suffix = suffix]

NoFile == [exists |-> FALSE]
File(data, synced) == [exists |-> TRUE, data |-> data, synced |-> synced]

\* no SSTable is being written or read
SstIdle ==
    /\ swStore = <<>>
    /\ swPath = PathInputs[1]
    /\ swBytes = <<>>
    /\ swPc = "start"
    /\ swSynced = FALSE
    /\ swRetried = FALSE
    /\ fs = [p \in Paths |-> NoFile]
    /\ srMeta = NoEntry
    /\ srGot = NoEntry

\* Memtable.__init__ at the grain of the lock: the worker thread is about to
\* enter `with self._flush_signal`
LockInit ==
    /\ mutex = "free"
    /\ thPc = [w \in Writers |-> "idle"]
    /\ thOp = [w \in Writers |-> NoEntry]
    /\ wkPc = "entering"
    /\ wkTask = NoTask
    /\ heap = <<SortedDict>>
    /\ cur = 1
    /\ lkSize = 0
    /\ lkQueue = <<>>
    /\ lkOps = 0
    /\ lkClosed = FALSE
    /\ curAtClose = 0

Init ==
    /\ MemtableInit /\ WALWriterInit /\ CodecIdle /\ ReaderIdle /\ SstIdle
    /\ LockInit

\* Memtable._set: insert, account, and rotate when should_flush
_set(key, entry) ==
    LET inserted == SetItem(_store, key, entry)
        sz == SizeAfterInsert(key, entry)
    IN  /\ lastWrite' = SetItem(lastWrite, key, entry)
        /\ acceptedAfterClose' = (acceptedAfterClose \/ closePc = "returned")
        /\ IF should_flush(sz)
           THEN /\ _immutable_stores' =
                      Append(_immutable_stores,
                             FlushTask(inserted, entry.seq_no, rotations + 1))
                /\ _store' = SortedDict
                /\ _size_bytes' = 0
                /\ rotations' = rotations + 1
                /\ workerPc' = notify(workerPc)
           ELSE /\ _store' = inserted
                /\ _size_bytes' = sz
                /\ UNCHANGED <<_immutable_stores, rotations, workerPc>>

\* a writer takes the next seq_no for a put(key, MemtableEntry(seq_no, value))
CallPut(w) ==
    /\ pending[w] = <<>>
    /\ nextSeq <= MaxSeq
    /\ \E key \in Keys, v \in Values :
          pending' = [pending EXCEPT ![w] =
                        <<[op |-> "put", key |-> key,
                           entry |-> MemtableEntry(nextSeq, v)]>>]
    /\ nextSeq' = nextSeq + 1
    /\ UNCHANGED <<memVars, workerPc, task, closePc, lastWrite, flushLog,
                   rotationsAtClose, histVars, acceptedAfterClose>>
    /\ UNCHANGED notMemtable

\* a writer takes the next seq_no for a delete(key, MemtableEntry(seq_no))
CallDelete(w) ==
    /\ pending[w] = <<>>
    /\ nextSeq <= MaxSeq
    /\ \E key \in Keys :
          pending' = [pending EXCEPT ![w] =
                        <<[op |-> "delete", key |-> key,
                           entry |-> MemtableEntry(nextSeq, None)]>>]
    /\ nextSeq' = nextSeq + 1
    /\ UNCHANGED <<memVars, workerPc, task, closePc, lastWrite, flushLog,
                   rotationsAtClose, histVars, acceptedAfterClose>>
    /\ UNCHANGED notMemtable

\* Memtable.put
put(w) ==
    /\ pending[w] # <<>>
    /\ pending[w][1].op = "put"
    /\ _set(pending[w][1].key, pending[w][1].entry)
    /\ pending' = [pending EXCEPT ![w] = <<>>]
    /\ UNCHANGED <<task, closePc, nextSeq, flushLog, rotationsAtClose,
                   histVars>>
    /\ UNCHANGED notMemtable

\* Memtable.delete
delete(w) ==
    /\ pending[w] # <<>>
    /\ pending[w][1].op = "delete"
    /\ _set(pending[w][1].key, pending[w][1].entry)
    /\ pending' = [pending EXCEPT ![w] = <<>>]
    /\ UNCHANGED <<task, closePc, nextSeq, flushLog, rotationsAtClose,
                   histVars>>
    /\ UNCHANGED notMemtable

\* Memtable.get called by any thread: it reads under the lock, returns
\* get(key) to its caller and changes nothing in the Memtable
Get ==
    /\ acceptedAfterClose' = (acceptedAfterClose \/ closePc = "returned")
    /\ UNCHANGED <<memVars, workerPc, task, closePc, nextSeq, pending,
                   lastWrite, flushLog, rotationsAtClose, histVars>>
    /\ UNCHANGED notMemtable

\* Memtable.close, the locked part: append the sentinel and notify
close ==
    /\ closePc = "none"
    /\ _immutable_stores' = enqueue_sentinel(_immutable_stores)
    /\ workerPc' = notify(workerPc)
    /\ closePc' = "joining"
    /\ rotationsAtClose' = rotations
    /\ UNCHANGED <<_store, _size_bytes, rotations, task, nextSeq, pending,
                   lastWrite, flushLog, histVars, acceptedAfterClose>>
    /\ UNCHANGED notMemtable

\* Memtable.close, self._thread.join() returns once the worker has exited
join ==
    /\ closePc = "joining"
    /\ workerPc = "exited"
    /\ closePc' = "returned"
    /\ UNCHANGED <<memVars, workerPc, task, nextSeq, pending, lastWrite,
                   flushLog, rotationsAtClose, histVars, acceptedAfterClose>>
    /\ UNCHANGED notMemtable

\* _flush_worker: wait_for finds the queue empty and blocks in wait()
WorkerWait ==
    /\ workerPc = "idle"
    /\ _immutable_stores = <<>>
    /\ workerPc' = "blocked"
    /\ UNCHANGED <<memVars, task, closePc, nextSeq, pending, lastWrite,
                   flushLog, rotationsAtClose, histVars, acceptedAfterClose>>
    /\ UNCHANGED notMemtable

\* _flush_worker: the predicate holds; popleft under the lock, then either
\* return on the sentinel or leave the lock with the task
WorkerPop ==
    /\ workerPc = "idle"
    /\ _immutable_stores # <<>>
    /\ LET p == popleft(_immutable_stores)
       IN  /\ _immutable_stores' = p.rest
           /\ IF p.item = NoTask
              THEN /\ workerPc' = "exited"
                   /\ task' = NoTask
                   /\ flushLog' = flushLog
              ELSE /\ workerPc' = "flushing"
                   /\ task' = p.item
                   /\ flushLog' = Append(flushLog,
                          [id |-> p.item.id,
                           checkpoint_seq_no |-> p.item.checkpoint_seq_no])
    /\ UNCHANGED <<_store, _size_bytes, rotations, closePc, nextSeq, pending,
                   lastWrite, rotationsAtClose, histVars,
                   acceptedAfterClose>>
    /\ UNCHANGED notMemtable

\* _flush_worker: the loop over task.store.items() outside the lock (its body
\* is `pass`; no SSTable is written and no checkpoint is made), then loop
WorkerFlush ==
    /\ workerPc = "flushing"
    /\ workerPc' = "idle"
    /\ task' = NoTask
    /\ UNCHANGED <<memVars, closePc, nextSeq, pending, lastWrite,
                   flushLog, rotationsAtClose, histVars, acceptedAfterClose>>
    /\ UNCHANGED notMemtable

_flush_worker == WorkerWait \/ WorkerPop \/ WorkerFlush

Next ==
    \/ \E w \in Writers : CallPut(w)
    \/ \E w \in Writers : CallDelete(w)
    \/ \E w \in Writers : put(w)
    \/ \E w \in Writers : delete(w)
    \/ Get
    \/ close
    \/ join
    \/ WorkerWait
    \/ WorkerPop
    \/ WorkerFlush

Spec == Init /\ [][Next]_vars

\* the flush worker thread and the joining thread are scheduled fairly
FairSpec == Spec /\ WF_vars(_flush_worker) /\ WF_vars(join)

\* one thread writes a run of entries with distinct keys of one length, 4 KiB
\* values and increasing seq_nos into a fresh Memtable
RunEntries == 1024
KeyLens == {2, 16}
RunKey(i, n) == <<i \div 256, i % 256>> \o [j \in 1..(n - 2) |-> 0]
RunCall(i, n) ==
    <<[op |-> "put", key |-> RunKey(i, n), entry |-> MemtableEntry(i, "v4K")]>>

RunInit ==
    /\ _store = SortedDict
    /\ _size_bytes = 0
    /\ _immutable_stores = <<>>
    /\ workerPc = "idle"
    /\ task = NoTask
    /\ closePc = "none"
    /\ nextSeq = 2
    /\ \E n \in KeyLens :
          pending = [w \in Writers |-> IF w = "w1" THEN RunCall(1, n) ELSE <<>>]
    /\ lastWrite = SortedDict
    /\ rotations = 0
    /\ flushLog = <<>>
    /\ rotationsAtClose = 0
    /\ sstables = <<>>
    /\ checkpoints = <<>>
    /\ acceptedAfterClose = FALSE
    /\ WALWriterInit /\ CodecIdle /\ ReaderIdle /\ SstIdle /\ LockInit

\* the thread's put returns and it makes ready the next entry of the run
RunPut ==
    /\ pending["w1"] # <<>>
    /\ _set(pending["w1"][1].key, pending["w1"][1].entry)
    /\ pending' = [pending EXCEPT !["w1"] =
                      IF nextSeq <= RunEntries
                      THEN RunCall(nextSeq, Len(pending["w1"][1].key))
                      ELSE <<>>]
    /\ nextSeq' = nextSeq + 1
    /\ UNCHANGED <<task, closePc, flushLog, rotationsAtClose, histVars>>
    /\ UNCHANGED notMemtable

RunNext == RunPut \/ WorkerWait \/ WorkerPop \/ WorkerFlush

RunSpec == RunInit /\ [][RunNext]_vars

\* ------------------------------------------- Memtable at the grain of the lock
\* calls the threads make; put and delete carry the next seq_no
MaxCalls == 3
CallInputs(seq_no) ==
    {[op |-> "put", key |-> k, entry |-> MemtableEntry(seq_no, v)] :
        k \in Keys, v \in Values}
    \cup {[op |-> "delete", key |-> k, entry |-> MemtableEntry(seq_no, None)] :
            k \in Keys}
    \cup {[op |-> "get", key |-> k, entry |-> NoEntry] : k \in Keys}
    \cup {[op |-> "close", key |-> <<>>, entry |-> NoEntry]}

\* Condition.notify(): a thread in wait() is woken and must reacquire the lock
lock_notify(pc) == IF pc = "waiting" THEN "notified" ELSE pc

\* leaving `with self._flush_signal` (line 115 to 117) releases the lock
lock_kept(holder) == holder
lock_released(holder) == "free"

\* `self._store = SortedDict()` (line 105) binds a new object
store_cleared(id, objects) == id
new_store(id, objects) == Len(objects) + 1

\* a thread calls put, delete, get or close
ThreadCall(w) ==
    /\ thPc[w] = "idle"
    /\ lkOps < MaxCalls
    /\ \E c \in CallInputs(lkOps + 1) :
          /\ c.op = "close" => ~lkClosed
          /\ thOp' = [thOp EXCEPT ![w] = c]
          /\ lkClosed' = (lkClosed \/ c.op = "close")
    /\ thPc' = [thPc EXCEPT ![w] = "entering"]
    /\ lkOps' = lkOps + 1
    /\ UNCHANGED <<mutex, wkPc, wkTask, heap, cur, lkSize, lkQueue,
                   curAtClose>>
    /\ UNCHANGED notLock

\* `with self._flush_signal:` in _set, get or close acquires the lock
ThreadEnter(w) ==
    /\ thPc[w] = "entering"
    /\ mutex = "free"
    /\ mutex' = w
    /\ thPc' = [thPc EXCEPT ![w] = "locked"]
    /\ UNCHANGED <<thOp, wkPc, wkTask, heap, cur, lkSize, lkQueue, lkOps,
                   lkClosed, curAtClose>>
    /\ UNCHANGED notLock

\* _set under the lock (lines 94-108)
LockedSet(key, entry) ==
    LET inserted == SetItem(heap[cur], key, entry)
        removed == IF key \in DOMAIN heap[cur]
                   THEN lkSize - (Len(key) + size_bytes(heap[cur][key]))
                   ELSE lkSize
        sz == removed + Len(key) + size_bytes(entry)
        written == [heap EXCEPT ![cur] = inserted]
        fresh == new_store(cur, written)
    IN  IF should_flush(sz)
        THEN /\ lkQueue' = Append(lkQueue,
                               [store |-> cur, checkpoint_seq_no |-> entry.seq_no])
             /\ cur' = fresh
             /\ heap' = IF fresh > Len(written) THEN Append(written, SortedDict)
                        ELSE [written EXCEPT ![fresh] = SortedDict]
             /\ lkSize' = 0
             /\ wkPc' = lock_notify(wkPc)
        ELSE /\ heap' = written
             /\ lkSize' = sz
             /\ UNCHANGED <<lkQueue, cur, wkPc>>

\* the body of the with block of _set, get or close, and the release
ThreadBody(w) ==
    /\ thPc[w] = "locked"
    /\ CASE thOp[w].op \in {"put", "delete"} ->
              LockedSet(thOp[w].key, thOp[w].entry)
         [] thOp[w].op = "get" ->
              UNCHANGED <<heap, cur, lkSize, lkQueue, wkPc>>
         [] thOp[w].op = "close" ->
              /\ lkQueue' = enqueue_sentinel(lkQueue)
              /\ wkPc' = lock_notify(wkPc)
              /\ UNCHANGED <<heap, cur, lkSize>>
    /\ curAtClose' = IF thOp[w].op = "close" THEN cur ELSE curAtClose
    /\ mutex' = "free"
    /\ thPc' = [thPc EXCEPT ![w] = IF thOp[w].op = "close" THEN "joining"
                                   ELSE "idle"]
    /\ UNCHANGED <<thOp, wkTask, lkOps, lkClosed>>
    /\ UNCHANGED notLock

\* close: self._thread.join() returns once the worker has returned
ThreadJoin(w) ==
    /\ thPc[w] = "joining"
    /\ wkPc = "exited"
    /\ thPc' = [thPc EXCEPT ![w] = "idle"]
    /\ UNCHANGED <<mutex, thOp, wkPc, wkTask, heap, cur, lkSize, lkQueue,
                   lkOps, lkClosed, curAtClose>>
    /\ UNCHANGED notLock

\* _flush_worker: `with self._flush_signal:` (line 113) acquires the lock;
\* a notified wait() reacquires it
WorkerEnter ==
    /\ wkPc \in {"entering", "notified"}
    /\ mutex = "free"
    /\ mutex' = "worker"
    /\ wkPc' = "locked"
    /\ UNCHANGED <<thPc, thOp, wkTask, heap, cur, lkSize, lkQueue, lkOps,
                   lkClosed, curAtClose>>
    /\ UNCHANGED notLock

\* wait_for finds the queue empty: wait() releases the lock and blocks
WorkerBlock ==
    /\ wkPc = "locked"
    /\ lkQueue = <<>>
    /\ mutex' = "free"
    /\ wkPc' = "waiting"
    /\ UNCHANGED <<thPc, thOp, wkTask, heap, cur, lkSize, lkQueue, lkOps,
                   lkClosed, curAtClose>>
    /\ UNCHANGED notLock

\* the predicate holds: popleft, then the with block ends (lines 114-117)
WorkerTake ==
    /\ wkPc = "locked"
    /\ lkQueue # <<>>
    /\ wkTask' = Head(lkQueue)
    /\ lkQueue' = Tail(lkQueue)
    /\ mutex' = lock_released(mutex)
    /\ wkPc' = IF Head(lkQueue) = NoTask THEN "exited" ELSE "flushing"
    /\ UNCHANGED <<thPc, thOp, heap, cur, lkSize, lkOps, lkClosed,
                   curAtClose>>
    /\ UNCHANGED notLock

\* the loop over task.store.items() (lines 119-125), then `while True` again
WorkerIterate ==
    /\ wkPc = "flushing"
    /\ wkPc' = "entering"
    /\ wkTask' = NoTask
    /\ UNCHANGED <<mutex, thPc, thOp, heap, cur, lkSize, lkQueue, lkOps,
                   lkClosed, curAtClose>>
    /\ UNCHANGED notLock

LockNext ==
    \/ \E w \in Writers : ThreadCall(w)
    \/ \E w \in Writers : ThreadEnter(w)
    \/ \E w \in Writers : ThreadBody(w)
    \/ \E w \in Writers : ThreadJoin(w)
    \/ WorkerEnter
    \/ WorkerBlock
    \/ WorkerTake
    \/ WorkerIterate

LockSpec == Init /\ [][LockNext]_vars

\* ================================================================== WAL
\* ------------------------------------------------------- bytes and struct
\* bytes are sequences of 0..255; Python slices never fail, they clip
Min(a, b) == IF a < b THEN a ELSE b

\* data[a:b] for 0 <= a, 0 <= b (0-based, end exclusive)
Slice(data, a, b) == SubSeq(data, a + 1, Min(b, Len(data)))

\* data[:-n] and data[-n:] for n > 0
DropLast(data, n) == SubSeq(data, 1, Len(data) - n)
TakeLast(data, n) == SubSeq(data, Len(data) - n + 1, Len(data))

\* b"".join(parts)
RECURSIVE JoinRange(_, _, _)
JoinRange(parts, lo, hi) ==
    IF lo > hi THEN <<>>
    ELSE IF lo = hi THEN parts[lo]
    ELSE LET mid == (lo + hi) \div 2
         IN  JoinRange(parts, lo, mid) \o JoinRange(parts, mid + 1, hi)
Join(parts) == JoinRange(parts, 1, Len(parts))

\* struct.pack big-endian unsigned: H (2 bytes), I (4 bytes), Q (8 bytes)
PackH(n) == <<(n \div 256) % 256, n % 256>>
PackI(n) == <<(n \div 16777216) % 256, (n \div 65536) % 256,
              (n \div 256) % 256, n % 256>>
PackQ(n) == <<0, 0, 0, 0>> \o PackI(n)

\* struct.unpack big-endian unsigned of exactly the bytes given
RECURSIVE Unpack(_)
Unpack(bs) == IF bs = <<>> THEN 0
              ELSE Unpack(DropLast(bs, 1)) * 256 + bs[Len(bs)]

\* zlib.crc32: a 32-bit register is the set of its one bits (bit 0 = lsb)
Bits(n, w) == {i \in 0..(w - 1) : (n \div (2 ^ i)) % 2 = 1}
Xor(A, B) == (A \ B) \cup (B \ A)
CrcPoly == Bits(33568, 16) \cup {i + 16 : i \in Bits(60856, 16)}

\* one step of the bitwise CRC: shift right, xor the polynomial on carry
CrcShift1(reg) ==
    LET shifted == {i - 1 : i \in reg \ {0}}
    IN  IF 0 \in reg THEN Xor(shifted, CrcPoly) ELSE shifted

RECURSIVE CrcShift(_, _)
CrcShift(reg, n) == IF n = 0 THEN reg ELSE CrcShift1(CrcShift(reg, n - 1))

\* the four bytes of a register, least significant first
RegByte(reg, j) ==
    LET bit(i) == IF (8 * j + i) \in reg THEN 2 ^ i ELSE 0
    IN  bit(0) + bit(1) + bit(2) + bit(3) + bit(4) + bit(5) + bit(6) + bit(7)

\* zlib's table: the register a byte leaves after its eight shifts
CrcTable == [b \in 0..255 |-> CrcShift(Bits(b, 8), 8)]

\* the register after the first i bytes of data (byte-wise form: the low
\* byte xor the data byte is shifted out through the polynomial)
RECURSIVE CrcUpdate(_, _)
CrcUpdate(data, i) ==
    IF i = 0 THEN 0..31
    ELSE LET prev == CrcUpdate(data, i - 1)
             low == Xor(prev \cap (0..7), Bits(data[i], 8))
             high == {j - 8 : j \in prev \ (0..7)}
         IN  IF low = {} THEN high ELSE Xor(high, CrcTable[RegByte(low, 0)])

\* the four bytes struct.pack(">I", zlib.crc32(data) & 0xFFFFFFFF)
crc32(data) ==
    LET reg == (0..31) \ CrcUpdate(data, Len(data))
    IN  <<RegByte(reg, 3), RegByte(reg, 2), RegByte(reg, 1), RegByte(reg, 0)>>

\* ---------------------------------------------------------------- WALEntry
\* OperationType
PUT == 1
DELETE == 2

\* WALEntry(seq_no, op_type, key, value); value is a byte string or None
WALEntry(s, op, k, v) == [seq_no |-> s, op_type |-> op, key |-> k, value |-> v]

\* an exception raised instead of a result
Raise(kind) == [raised |-> kind]
Raised(r) == "raised" \in DOMAIN r

\* WALEntry.to_bytes; `self.value or b""` and `len(value) if value else 0`
\* take None and b"" alike
to_bytes(e) ==
    LET val == IF e.value = None THEN <<>> ELSE e.value
        payload == PackQ(e.seq_no) \o <<e.op_type>> \o PackH(Len(e.key))
                   \o PackI(Len(val)) \o e.key \o val
    IN  PackI(Len(payload) + 4) \o payload \o crc32(payload)

\* the check of the stored checksum in WALEntry.from_bytes (line 96)
crc_any(calculated, stored) == FALSE
crc_mismatch(calculated, stored) == calculated # stored

\* the value WALEntry.from_bytes rebuilds (line 113)
value_of(payload, value_start, val_len) ==
    IF val_len > 0 THEN Slice(payload, value_start, value_start + val_len)
    ELSE None

\* WALEntry.from_bytes(data); data is the whole frame, length field included
from_bytes(data) ==
    IF Len(data) < 4 THEN Raise("struct.error")
    ELSE
    LET entry_length == Unpack(Slice(data, 0, 4))
        total_required == 4 + entry_length
        entry_chunk == Slice(data, 4, total_required)
        payload == DropLast(entry_chunk, 4)
        stored == TakeLast(entry_chunk, 4)
    IN  IF Len(data) < total_required THEN Raise("ValueError: Insufficient data")
        ELSE IF Len(entry_chunk) < 4 THEN Raise("struct.error")
        ELSE IF crc_mismatch(crc32(payload), stored)
             THEN Raise("ValueError: CRC32 mismatch")
        ELSE IF Len(payload) < 15 THEN Raise("struct.error")
        ELSE
        LET seq_no == Unpack(Slice(payload, 0, 8))
            op_type_val == payload[9]
            key_len == Unpack(Slice(payload, 9, 11))
            val_len == Unpack(Slice(payload, 11, 15))
            key == Slice(payload, 15, 15 + key_len)
            value == value_of(payload, 15 + key_len, val_len)
        IN  IF op_type_val \notin {PUT, DELETE}
            THEN Raise("ValueError: not a valid OperationType")
            ELSE WALEntry(seq_no, op_type_val, key, value)

\* --------------------------------------------------------------- WALWriter
\* the (op_type, key, value) of the entries the appending threads write
WalInputs ==
    << [op_type |-> PUT, key |-> <<1>>, value |-> <<7>>],
       [op_type |-> PUT, key |-> <<1, 2>>, value |-> <<>>],
       [op_type |-> DELETE, key |-> <<1>>, value |-> None] >>

\* the batch bound of _background_writer (`while len(batch) < 256`)
MAX_BATCH == 256

\* `while len(batch) < 256` (line 34)
batch_open_at_bound(batch) == Len(batch) <= MAX_BATCH
batch_open(batch) == Len(batch) < MAX_BATCH

\* a call on the log file: write with the number of frames joined, flush, fsync
Call(op, n) == [op |-> op, n |-> n]

\* Queue.get / get_nowait: the oldest item and the remaining queue
queue_get_newest(q) == [item |-> q[Len(q)], rest |-> SubSeq(q, 1, Len(q) - 1)]
queue_get(q) == [item |-> Head(q), rest |-> Tail(q)]

\* WALWriter.append: queue entry.to_bytes(); returns at once
append ==
    /\ walSeq <= MaxSeq
    /\ \E i \in DOMAIN WalInputs :
          LET e == WALEntry(walSeq, WalInputs[i].op_type, WalInputs[i].key,
                            WalInputs[i].value)
          IN  /\ walQueue' = Append(walQueue, to_bytes(e))
              /\ walAccepted' = Append(walAccepted, to_bytes(e))
    /\ walSeq' = walSeq + 1
    /\ UNCHANGED <<walPc, walBatch, walStop, walFile, walSynced, walClosePc,
                   walAckedAtReturn,
                   walLog>>
    /\ UNCHANGED notWal

\* WALWriter.close: queue the sentinel
WalClose ==
    /\ walClosePc = "none"
    /\ walQueue' = Append(walQueue, NoTask)
    /\ walClosePc' = "joining"
    /\ UNCHANGED <<walPc, walBatch, walStop, walFile, walSynced, walSeq,
                   walAccepted, walAckedAtReturn,
                   walLog>>
    /\ UNCHANGED notWal

\* WALWriter.close: self._thread.join() returns once the worker has exited
WalJoin ==
    /\ walClosePc = "joining"
    /\ walPc = "exited"
    /\ walClosePc' = "returned"
    /\ walAckedAtReturn' = walAccepted
    /\ UNCHANGED <<walQueue, walPc, walBatch, walStop, walFile, walSynced,
                   walSeq, walAccepted,
                   walLog>>
    /\ UNCHANGED notWal

\* _background_writer: the blocking self._queue.get() (lines 29-33)
WalGet ==
    /\ walPc = "get"
    /\ walQueue # <<>>
    /\ LET g == queue_get(walQueue)
       IN  /\ walQueue' = g.rest
           /\ IF g.item = NoTask
              THEN walPc' = "exited" /\ walBatch' = walBatch
              ELSE walPc' = "batching" /\ walBatch' = <<g.item>>
    /\ UNCHANGED <<walStop, walFile, walSynced, walClosePc, walSeq,
                   walAccepted, walAckedAtReturn,
                   walLog>>
    /\ UNCHANGED notWal

\* _background_writer: get_nowait() returns an item (lines 34-40)
WalGetNowait ==
    /\ walPc = "batching"
    /\ batch_open(walBatch)
    /\ walQueue # <<>>
    /\ LET g == queue_get(walQueue)
       IN  /\ walQueue' = g.rest
           /\ IF g.item = NoTask
              THEN walPc' = "write" /\ walStop' = TRUE /\ walBatch' = walBatch
              ELSE walPc' = "batching" /\ walStop' = walStop
                   /\ walBatch' = Append(walBatch, g.item)
    /\ UNCHANGED <<walFile, walSynced, walClosePc, walSeq, walAccepted,
                   walAckedAtReturn,
                   walLog>>
    /\ UNCHANGED notWal

\* _background_writer: the batch is full or get_nowait() raises Empty
WalBatchEnd ==
    /\ walPc = "batching"
    /\ (~batch_open(walBatch) \/ walQueue = <<>>)
    /\ walPc' = "write"
    /\ UNCHANGED <<walQueue, walBatch, walStop, walFile, walSynced, walClosePc,
                   walSeq, walAccepted, walAckedAtReturn,
                   walLog>>
    /\ UNCHANGED notWal

\* _write_batch: self._fd.write(b"".join(batch)); self._fd.flush()
WalWrite ==
    /\ walPc = "write"
    /\ walFile' = walFile \o Join(walBatch)
    /\ walBatch' = <<>>
    /\ walLog' = walLog \o <<Call("write", Len(walBatch)), Call("flush", 0)>>
    /\ walPc' = "fsync"
    /\ UNCHANGED <<walQueue, walStop, walSynced, walClosePc, walSeq,
                   walAccepted, walAckedAtReturn>>
    /\ UNCHANGED notWal

\* _write_batch: os.fsync; then loop, or return after the sentinel's batch
WalFsync ==
    /\ walPc = "fsync"
    /\ walSynced' = Len(walFile)
    /\ walLog' = Append(walLog, Call("fsync", 0))
    /\ walPc' = IF walStop THEN "exited" ELSE "get"
    /\ UNCHANGED <<walQueue, walBatch, walStop, walFile, walClosePc, walSeq,
                   walAccepted, walAckedAtReturn>>
    /\ UNCHANGED notWal

_background_writer ==
    WalGet \/ WalGetNowait \/ WalBatchEnd \/ WalWrite \/ WalFsync

WalNext ==
    \/ append
    \/ WalClose
    \/ WalJoin
    \/ WalGet
    \/ WalGetNowait
    \/ WalBatchEnd
    \/ WalWrite
    \/ WalFsync

WalSpec == Init /\ [][WalNext]_vars

\* the worker thread is scheduled only after the callers have queued a run of
\* appends: 1, 256, 257 or WalBulk frames wait in the queue
WalBulk == 258
BulkFrames(n) ==
    <<>> \o [i \in 1..n |-> to_bytes(WALEntry(i, PUT, <<1>>, <<7>>))]
WalBulkInit ==
    /\ MemtableInit /\ CodecIdle /\ ReaderIdle /\ SstIdle /\ LockInit
    /\ \E n \in {1, MAX_BATCH, MAX_BATCH + 1, WalBulk} :
          /\ walQueue = BulkFrames(n)
          /\ walAccepted = BulkFrames(n)
          /\ walSeq = n + 1
    /\ walPc = "get"
    /\ walBatch = <<>>
    /\ walStop = FALSE
    /\ walFile = <<>>
    /\ walSynced = 0
    /\ walClosePc = "none"
    /\ walAckedAtReturn = <<>>
    /\ walLog = <<>>

WalBulkNext ==
    \/ WalClose
    \/ WalJoin
    \/ WalGet
    \/ WalGetNowait
    \/ WalBatchEnd
    \/ WalWrite
    \/ WalFsync

WalBulkSpec == WalBulkInit /\ [][WalBulkNext]_vars

\* ------------------------------------------ WALEntry to_bytes / from_bytes
\* an entry to convert: any of the inputs, with any seq_no
CodecInit ==
    /\ MemtableInit /\ WALWriterInit /\ ReaderIdle /\ SstIdle /\ LockInit
    /\ \E i \in DOMAIN WalInputs, n \in 1..MaxSeq :
          cEntry = WALEntry(n, WalInputs[i].op_type, WalInputs[i].key,
                            WalInputs[i].value)
    /\ cFrame = <<>>
    /\ cKind = "none"
    /\ cOut = NoEntry
    /\ cAgain = <<>>

\* entry.to_bytes()
Serialize ==
    /\ cKind = "none"
    /\ cFrame' = to_bytes(cEntry)
    /\ cKind' = "intact"
    /\ UNCHANGED <<cEntry, cOut, cAgain>>
    /\ UNCHANGED notCodec

\* one byte of the payload (frame bytes 5 .. Len - 4) takes another value
CorruptPayload ==
    /\ cKind = "intact"
    /\ cOut = NoEntry
    /\ \E i \in 5..(Len(cFrame) - 4), b \in 0..255 :
          /\ b # cFrame[i]
          /\ cFrame' = [cFrame EXCEPT ![i] = b]
    /\ cKind' = "payload"
    /\ UNCHANGED <<cEntry, cOut, cAgain>>
    /\ UNCHANGED notCodec

\* one byte of the stored checksum (the last 4 bytes) takes another value
CorruptChecksum ==
    /\ cKind = "intact"
    /\ cOut = NoEntry
    /\ \E i \in (Len(cFrame) - 3)..Len(cFrame), b \in 0..255 :
          /\ b # cFrame[i]
          /\ cFrame' = [cFrame EXCEPT ![i] = b]
    /\ cKind' = "crc"
    /\ UNCHANGED <<cEntry, cOut, cAgain>>
    /\ UNCHANGED notCodec

\* WALEntry.from_bytes(frame), and to_bytes() of the entry it returns
Deserialize ==
    /\ cKind # "none"
    /\ cOut = NoEntry
    /\ cOut' = from_bytes(cFrame)
    /\ cAgain' = IF Raised(cOut') THEN <<>> ELSE to_bytes(cOut')
    /\ UNCHANGED <<cEntry, cFrame, cKind>>
    /\ UNCHANGED notCodec

CodecNext == Serialize \/ CorruptPayload \/ CorruptChecksum \/ Deserialize

CodecSpec == CodecInit /\ [][CodecNext]_vars

\* ---------------------------------------------------------------- WALHeader
HEADER_SIZE == 32
WALX == <<87, 65, 76, 88>>
WALHeader(magic, version, timestamp) ==
    [magic |-> magic, version |-> version, timestamp |-> timestamp]

Zeros(n) == [i \in 1..n |-> 0]

\* struct.pack(">4sIQ16s", magic, version, timestamp, 16 zero bytes)
header_to_bytes(h) ==
    h.magic \o PackI(h.version) \o PackQ(h.timestamp) \o Zeros(16)

version_any(version) == FALSE
bad_version(version) == version = 0

\* WALHeader.from_bytes: struct.unpack needs exactly 32 bytes
header_from_bytes(data) ==
    IF Len(data) # HEADER_SIZE THEN Raise("struct.error")
    ELSE LET magic == Slice(data, 0, 4)
             version == Unpack(Slice(data, 4, 8))
             timestamp == Unpack(Slice(data, 8, 16))
         IN  IF magic # WALX THEN Raise("ValueError: Invalid WAL file")
             ELSE IF bad_version(version)
                  THEN Raise("ValueError: Invalid WAL version")
                  ELSE WALHeader(magic, version, timestamp)

validate(data) == header_from_bytes(data)

\* ---------------------------------------------------------------- WALReader
\* the headers a file is given: two valid ones, wrong magics, version 0
HeaderInputs ==
    << [kind |-> "valid", h |-> WALHeader(WALX, 1, 0)],
       [kind |-> "valid", h |-> WALHeader(WALX, 2, 7)],
       [kind |-> "magic", h |-> WALHeader(<<87, 65, 76, 89>>, 1, 0)],
       [kind |-> "magic", h |-> WALHeader(<<83, 83, 84, 66>>, 1, 0)],
       [kind |-> "magic", h |-> WALHeader(<<0, 65, 76, 88>>, 1, 0)],
       [kind |-> "version", h |-> WALHeader(WALX, 0, 0)] >>

\* the entries written to a file: up to two of the inputs, seq_no 1, 2
MaxEntries == 2
InputEntry(i, n) ==
    WALEntry(n, WalInputs[i].op_type, WalInputs[i].key, WalInputs[i].value)
RECURSIVE EntryLists(_)
EntryLists(n) ==
    IF n = 0 THEN {<<>>}
    ELSE LET shorter == EntryLists(n - 1)
         IN  shorter \cup
             {l \o <<i>> : l \in {m \in shorter : Len(m) = n - 1},
                           i \in DOMAIN WalInputs}
RECURSIVE Frames(_, _)
Frames(l, n) ==
    IF n = 0 THEN <<>>
    ELSE Append(Frames(l, n - 1), to_bytes(InputEntry(l[n], n)))

\* a file: a header, the frames, and the tail lost in a crash; or a file
\* cut short inside the header
ReaderInit ==
    /\ MemtableInit /\ WALWriterInit /\ CodecIdle /\ SstIdle /\ LockInit
    /\ \/ \E hi \in DOMAIN HeaderInputs, l \in EntryLists(MaxEntries) :
            LET frames == Frames(l, Len(l))
                last == IF l = <<>> THEN 0 ELSE Len(frames[Len(l)])
                body == header_to_bytes(HeaderInputs[hi].h) \o Join(frames)
            IN  /\ rdEntries = [n \in DOMAIN l |-> InputEntry(l[n], n)]
                /\ rdHeader = HeaderInputs[hi].kind
                /\ rdCut \in 0..last
                /\ rdFile = SubSeq(body, 1, Len(body) - rdCut)
       \/ /\ rdEntries = <<>>
          /\ rdHeader = "short"
          /\ rdCut = 0
          /\ \E n \in 0..(HEADER_SIZE - 1) :
                rdFile = SubSeq(header_to_bytes(HeaderInputs[1].h), 1, n)
    /\ rdPos = 0
    /\ rdState = "new"
    /\ rdError = "none"
    /\ rdYielded = <<>>
    /\ hdrOut = NoEntry

\* WALHeader.from_bytes on the head of the file, or on the whole file
HeaderFromBytes ==
    /\ hdrOut = NoEntry
    /\ \E n \in {HEADER_SIZE, Len(rdFile)} :
          hdrOut' = [data |-> Slice(rdFile, 0, n),
                     out |-> header_from_bytes(Slice(rdFile, 0, n))]
    /\ UNCHANGED <<rdEntries, rdHeader, rdCut, rdFile, rdPos, rdState,
                   rdError, rdYielded>>
    /\ UNCHANGED notReader

\* WALReader.__init__: _validate_header
_validate_header ==
    /\ rdState = "new"
    /\ LET data == Slice(rdFile, rdPos, rdPos + HEADER_SIZE)
       IN  /\ rdPos' = rdPos + Len(data)
           /\ IF Len(data) < HEADER_SIZE
              THEN /\ rdState' = "raised"
                   /\ rdError' = "ValueError: Truncated WAL file"
              ELSE IF Raised(validate(data))
                   THEN /\ rdState' = "raised"
                        /\ rdError' = IF validate(data).raised = "struct.error"
                                      THEN "struct.error"
                                      ELSE "ValueError: Invalid WAL header"
                   ELSE /\ rdState' = "open"
                        /\ rdError' = "none"
    /\ UNCHANGED <<rdEntries, rdHeader, rdCut, rdFile, rdYielded, hdrOut>>
    /\ UNCHANGED notReader

\* WALReader._read_entry at a position: the entry, None at the end of the
\* file, or the exception; and the position it leaves _fd at
_read_entry(file, pos) ==
    LET length_data == Slice(file, pos, pos + 4)
        entry_length == Unpack(length_data)
        payload_with_checksum == Slice(file, pos + 4, pos + 4 + entry_length)
    IN  IF Len(length_data) = 0
        THEN [entry |-> NoEntry, pos |-> pos]
        ELSE IF Len(length_data) < 4
        THEN [entry |-> Raise("ValueError: Truncated entry"),
              pos |-> pos + Len(length_data)]
        ELSE IF Len(payload_with_checksum) < entry_length
        THEN [entry |-> Raise("ValueError: Truncated entry"),
              pos |-> pos + 4 + Len(payload_with_checksum)]
        ELSE [entry |-> from_bytes(payload_with_checksum),
              pos |-> pos + 4 + entry_length]

\* WALReader.__next__
__next__ ==
    /\ rdState = "open"
    /\ LET r == _read_entry(rdFile, rdPos)
       IN  /\ rdPos' = r.pos
           /\ IF r.entry = NoEntry
              THEN /\ rdState' = "stopped"
                   /\ UNCHANGED <<rdError, rdYielded>>
              ELSE IF Raised(r.entry)
              THEN /\ rdState' = "raised"
                   /\ rdError' = r.entry.raised
                   /\ UNCHANGED rdYielded
              ELSE /\ rdYielded' = Append(rdYielded, r.entry)
                   /\ UNCHANGED <<rdState, rdError>>
    /\ UNCHANGED <<rdEntries, rdHeader, rdCut, rdFile, hdrOut>>
    /\ UNCHANGED notReader

ReaderNext == HeaderFromBytes \/ _validate_header \/ __next__

ReaderSpec == ReaderInit /\ [][ReaderNext]_vars

\* ------------------------------------------------------- sstable/models.py
SEGMTSST == <<83, 69, 71, 77, 84, 83, 83, 84>>
SSTableHeader_SIZE == 17
SSTableFooter_SIZE == 32
BLOCK_SIZE == 4 * 1024
VERSION == 1

\* bytes compare as Python compares them: lexicographically
RECURSIVE BytesLess(_, _)
BytesLess(a, b) ==
    IF b = <<>> THEN FALSE
    ELSE IF a = <<>> THEN TRUE
    ELSE IF Head(a) # Head(b) THEN Head(a) < Head(b)
    ELSE BytesLess(Tail(a), Tail(b))

\* SSTableHeader.to_bytes: struct.pack(">8sIBI", magic, version, level, count)
sst_header_to_bytes(version, level, entry_count) ==
    SEGMTSST \o PackI(version) \o <<level>> \o PackI(entry_count)

SSTableEntry(key, value, seq_no) ==
    [key |-> key, value |-> value, seq_no |-> seq_no]

\* SSTableEntry.bytes_size
bytes_size(e) ==
    4 + 15 + Len(e.key) + (IF e.value = None THEN 0 ELSE Len(e.value))

\* SSTableEntry.to_bytes: length, seq_no, key_len, val_len, tombstone, key, value
entry_to_bytes(e) ==
    LET val == IF e.value = None THEN <<>> ELSE e.value
        tombstone_flag == IF e.value = None THEN 1 ELSE 0
        payload == PackQ(e.seq_no) \o PackH(Len(e.key)) \o PackI(Len(val))
                   \o <<tombstone_flag>> \o e.key \o val
    IN  PackI(Len(payload)) \o payload

\* SSTableEntry.from_bytes
entry_from_bytes(data) ==
    LET entry_length == Unpack(Slice(data, 0, 4))
        payload == Slice(data, 4, 4 + entry_length)
    IN  IF Len(data) < 4 \/ Len(payload) < 15 THEN Raise("struct.error")
        ELSE
        LET seq_no == Unpack(Slice(payload, 0, 8))
            key_len == Unpack(Slice(payload, 8, 10))
            val_len == Unpack(Slice(payload, 10, 14))
            tombstone_flag == payload[15]
            key == Slice(payload, 15, 15 + key_len)
        IN  SSTableEntry(key,
                         IF tombstone_flag # 0 THEN None
                         ELSE Slice(payload, 15 + key_len, 15 + key_len + val_len),
                         seq_no)

\* lz4.block.compress(raw, store_size=False), stood in for by the LZ4 block that
\* is one run of literals: a token, the length bytes, the literals
RECURSIVE Lz4Length(_)
Lz4Length(n) == IF n < 255 THEN <<n>> ELSE <<255>> \o Lz4Length(n - 255)
lz4_compress(raw) ==
    IF Len(raw) < 15 THEN <<16 * Len(raw)>> \o raw
    ELSE <<240>> \o Lz4Length(Len(raw) - 15) \o raw

\* xxhash.xxh32(data).intdigest(), stood in for by a position-weighted sum
\* (31 bits; computed by halves)
RECURSIVE WeightedSum(_, _, _)
WeightedSum(data, lo, hi) ==
    IF lo > hi THEN 0
    ELSE IF lo = hi THEN (((lo % 251) + 1) * (data[lo] + 1)) % 65521
    ELSE LET mid == (lo + hi) \div 2
         IN  (WeightedSum(data, lo, mid) + WeightedSum(data, mid + 1, hi)) % 65521
xxh32(data) == 65536 * (Len(data) % 32768) + WeightedSum(data, 1, Len(data))

Block(data, uncompressed_size) ==
    [data |-> data, uncompressed_size |-> uncompressed_size]

\* Block.size
block_size_of_data(block) == Len(block.data)
block_size(block) == 8 + Len(block.data) + 4

\* Block.from_entries (entries is never empty here)
from_entries(entries) ==
    LET raw_data == Join([i \in DOMAIN entries |-> entry_to_bytes(entries[i])])
    IN  Block(lz4_compress(raw_data), Len(raw_data))

\* Block.to_bytes: header + data + xxh32(header + data)
block_to_bytes(block) ==
    LET header == PackI(Len(block.data)) \o PackI(block.uncompressed_size)
    IN  header \o block.data \o PackI(xxh32(header \o block.data))

\* lz4.block.decompress(data, uncompressed_size) of a block that is one run
\* of literals: read the token and the length bytes, return the literals
RECURSIVE Lz4LengthEnd(_, _)
Lz4LengthEnd(data, pos) ==
    IF pos > Len(data) THEN pos
    ELSE IF data[pos] = 255 THEN Lz4LengthEnd(data, pos + 1) ELSE pos
lz4_literals(data) ==
    IF data[1] \div 16 < 15 THEN [start |-> 2, n |-> data[1] \div 16]
    ELSE LET last == Lz4LengthEnd(data, 2)
         IN  [start |-> last + 1,
              n |-> 15 + 255 * (last - 2)
                    + (IF last > Len(data) THEN 0 ELSE data[last])]
lz4_error(data, uncompressed_size) ==
    \/ data = <<>>
    \/ Len(data) # lz4_literals(data).start - 1 + lz4_literals(data).n
    \/ lz4_literals(data).n # uncompressed_size
lz4_decompress(data, uncompressed_size) ==
    SubSeq(data, lz4_literals(data).start, Len(data))

\* Block.decompress
decompress(block) == lz4_decompress(block.data, block.uncompressed_size)

\* Block.iter_entries: the entries of the decompressed data from pos on
RECURSIVE EntriesFrom(_, _)
EntriesFrom(data, pos) ==
    IF pos >= Len(data) THEN <<>>
    ELSE LET entry_length == Unpack(Slice(data, pos, pos + 4))
             entry_size == 4 + entry_length
         IN  <<entry_from_bytes(Slice(data, pos, pos + entry_size))>>
             \o EntriesFrom(data, pos + entry_size)
iter_entries(block) ==
    IF lz4_error(block.data, block.uncompressed_size)
    THEN Raise("LZ4BlockError")
    ELSE EntriesFrom(decompress(block), 0)

\* Block.from_bytes
block_from_bytes(data) ==
    LET header == Slice(data, 0, 8)
        compressed_size == Unpack(Slice(header, 0, 4))
        uncompressed_size == Unpack(Slice(header, 4, 8))
        compressed_data == Slice(data, 8, 8 + compressed_size)
        checksum_bytes == Slice(data, 8 + compressed_size, 12 + compressed_size)
    IN  IF Len(header) < 8 \/ Len(checksum_bytes) < 4 THEN Raise("struct.error")
        ELSE IF Unpack(checksum_bytes) # xxh32(header \o compressed_data)
        THEN Raise("ValueError: Block checksum mismatch")
        ELSE Block(compressed_data, uncompressed_size)

SparseIndexEntry(key, offset) == [key |-> key, offset |-> offset]

\* SparseIndexEntry.to_bytes: struct.pack(">QH{key_len}s", offset, key_len, key)
index_entry_to_bytes(e) == PackQ(e.offset) \o PackH(Len(e.key)) \o e.key

\* SparseIndex.to_bytes
index_to_bytes(entries) ==
    PackI(Len(entries))
    \o Join([i \in DOMAIN entries |-> index_entry_to_bytes(entries[i])])

\* SparseIndex.from_bytes: the loop from position pos with n entries left
RECURSIVE IndexEntriesFrom(_, _, _)
IndexEntriesFrom(data, pos, n) ==
    IF n = 0 THEN <<>>
    ELSE LET offset == Unpack(Slice(data, pos, pos + 8))
             key_len == Unpack(Slice(data, pos + 8, pos + 10))
             key == Slice(data, pos + 10, pos + 10 + key_len)
         IN  <<SparseIndexEntry(key, offset)>>
             \o IndexEntriesFrom(data, pos + 10 + key_len, n - 1)
index_from_bytes(data) ==
    IF Len(data) < 4 THEN Raise("struct.error")
    ELSE IndexEntriesFrom(data, 4, Unpack(Slice(data, 0, 4)))

\* bisect_right(keys, key): the number of indexed keys <= key
bisect_right(entries, key) ==
    Cardinality({i \in DOMAIN entries : ~BytesLess(key, entries[i].key)})

\* SparseIndex.find_block_offset: [offset |-> n], or NoEntry for None
find_block_offset(entries, key) ==
    IF entries = <<>> THEN NoEntry
    ELSE LET idx == bisect_right(entries, key) - 1
         IN  IF idx < 0 THEN NoEntry ELSE [offset |-> entries[idx + 1].offset]

SSTableFooter(index_offset, index_size, bloom_offset, bloom_size) ==
    [index_offset |-> index_offset, index_size |-> index_size,
     bloom_offset |-> bloom_offset, bloom_size |-> bloom_size]

\* SSTableFooter.to_bytes: struct.pack(">QIQI8s", ...)
footer_to_bytes(f) ==
    PackQ(f.index_offset) \o PackI(f.index_size) \o PackQ(f.bloom_offset)
    \o PackI(f.bloom_size) \o SEGMTSST

\* SSTableFooter.from_bytes
footer_from_bytes(data) ==
    IF Len(data) # SSTableFooter_SIZE THEN Raise("ValueError: Invalid footer size")
    ELSE IF Slice(data, 24, 32) # SEGMTSST
         THEN Raise("ValueError: Invalid SSTable footer")
         ELSE SSTableFooter(Unpack(Slice(data, 0, 8)), Unpack(Slice(data, 8, 12)),
                            Unpack(Slice(data, 12, 20)), Unpack(Slice(data, 20, 24)))

\* ---------------------------------------------------------- BloomFilter.py
\* rbloom's Bloom with xxh3_64 as hash, stood in for by a filter of BloomBits
\* bits with one bit per key: no false negatives, some false positives
BloomBits == 4
bloom_hash(key) == (Len(key) + Unpack(key)) % BloomBits

\* BloomFilter.from_keys(keys): the set of bits the added keys set
bloom_from_keys_but_first(keys) ==
    {bloom_hash(keys[j]) : j \in DOMAIN keys \ {1}}
bloom_from_keys(keys) == {bloom_hash(keys[j]) : j \in DOMAIN keys}

\* BloomFilter.to_bytes(): the bit array as one byte
bloom_to_bytes(bloom) ==
    LET bit(i) == IF i \in bloom THEN 2 ^ i ELSE 0
    IN  <<bit(0) + bit(1) + bit(2) + bit(3)>>

\* BloomFilter.from_bytes(data): the bits that are set
bloom_from_bytes(data) == IF data = <<>> THEN {} ELSE Bits(data[1], BloomBits)

\* BloomFilter.__contains__
bloom_contains(bloom, key) == bloom_hash(key) \in bloom

\* ------------------------------------------------------------ SSTableWriter
\* a value that fills a block on its own: 4 + 15 + 1 + BigLen = BLOCK_SIZE
BigLen == BLOCK_SIZE - 20
Big == <<>> \o [i \in 1..BigLen |-> 5]

\* the stores written: empty; one entry; a value, a tombstone and an empty
\* value in one block; three blocks of two, one and one entries
StoreInputs ==
    << <<>>,
       << [key |-> <<2>>, entry |-> MemtableEntry(1, <<7>>)] >>,
       << [key |-> <<2>>, entry |-> MemtableEntry(1, <<7>>)],
          [key |-> <<4>>, entry |-> MemtableEntry(2, None)],
          [key |-> <<6>>, entry |-> MemtableEntry(3, <<>>)] >>,
       << [key |-> <<2>>, entry |-> MemtableEntry(1, <<7>>)],
          [key |-> <<4>>, entry |-> MemtableEntry(2, Big)],
          [key |-> <<6>>, entry |-> MemtableEntry(3, Big)],
          [key |-> <<8>>, entry |-> MemtableEntry(4, None)] >> >>

\* the keys looked up: stored ones, and keys below, between and above them
LookupKeys ==
    << <<0>>, <<2>>, <<2, 1>>, <<3>>, <<4>>, <<6>>, <<8>>, <<10>> >>

\* _build_blocks_and_index, lines 119-127: the entries left after the loop
\* become the last block
tail_block_dropped(entries, blocks, index_entries, offset, total) ==
    [blocks |-> blocks, index_entries |-> index_entries, entry_count |-> total]
tail_block(entries, blocks, index_entries, offset, total) ==
    IF entries # <<>>
    THEN [blocks |-> Append(blocks, from_entries(entries)),
          index_entries |->
              Append(index_entries, SparseIndexEntry(entries[1].key, offset)),
          entry_count |-> total + Len(entries)]
    ELSE [blocks |-> blocks, index_entries |-> index_entries,
          entry_count |-> total]

\* SSTableWriter._build_blocks_and_index: the loop from item i on
RECURSIVE BuildFrom(_, _, _, _, _, _, _, _)
BuildFrom(items, i, entries, blocks, index_entries, curr_size, offset, total) ==
    IF i > Len(items)
    THEN tail_block(entries, blocks, index_entries, offset, total)
    ELSE LET entry == SSTableEntry(items[i].key, items[i].entry.value,
                                   items[i].entry.seq_no)
             grown == Append(entries, entry)
             size == curr_size + bytes_size(entry)
         IN  IF size >= BLOCK_SIZE
             THEN LET block == from_entries(grown)
                  IN  BuildFrom(items, i + 1, <<>>, Append(blocks, block),
                                Append(index_entries,
                                       SparseIndexEntry(grown[1].key, offset)),
                                0, offset + block_size(block),
                                total + Len(grown))
             ELSE BuildFrom(items, i + 1, grown, blocks, index_entries, size,
                            offset, total)
_build_blocks_and_index(items) ==
    BuildFrom(items, 1, <<>>, <<>>, <<>>, 0, SSTableHeader_SIZE, 0)

\* SSTableWriter.write, lines 45-73: the bytes of the file
FileBytes(items, level) ==
    LET built == _build_blocks_and_index(items)
        header_bytes == sst_header_to_bytes(VERSION, level, built.entry_count)
        block_bytes ==
            Join([i \in DOMAIN built.blocks |-> block_to_bytes(built.blocks[i])])
        index_bytes == index_to_bytes(built.index_entries)
        index_offset == Len(header_bytes) + Len(block_bytes)
        bloom == bloom_from_keys([i \in DOMAIN items |-> items[i].key])
        bloom_bytes == bloom_to_bytes(bloom)
        bloom_offset == index_offset + Len(index_bytes)
        footer == SSTableFooter(index_offset, Len(index_bytes), bloom_offset,
                                Len(bloom_bytes))
    IN  header_bytes \o block_bytes \o index_bytes \o bloom_bytes
        \o footer_to_bytes(footer)

\* how much of the bytes a file can hold when a write stops part-way
CutPoints(data) ==
    {n \in {0, 1, SSTableHeader_SIZE, Len(data) - SSTableFooter_SIZE,
            Len(data) - 1, Len(data)} : n >= 0 /\ n <= Len(data)}
Prefix(data, n) == SubSeq(data, 1, n)

\* SSTableWriter(store).write(path) is about to run; nothing is on disk
SstInit ==
    /\ MemtableInit /\ WALWriterInit /\ CodecIdle /\ ReaderIdle /\ LockInit
    /\ \E i \in DOMAIN StoreInputs : swStore = StoreInputs[i]
    /\ \E i \in DOMAIN PathInputs : swPath = PathInputs[i]
    /\ swBytes = <<>>
    /\ swPc = "start"
    /\ swSynced = FALSE
    /\ swRetried = FALSE
    /\ fs = [p \in Paths |-> NoFile]
    /\ srMeta = NoEntry
    /\ srGot = NoEntry

temp_path == with_suffix(swPath, ".tmp")

\* write, lines 45-73: build header, blocks, index, bloom filter and footer
WriteBuild ==
    /\ swPc = "start"
    /\ swBytes' = FileBytes(swStore, 0)
    /\ swPc' = "built"
    /\ UNCHANGED <<swStore, swPath, swSynced, swRetried, fs, srMeta, srGot>>
    /\ UNCHANGED notSst

\* write, lines 76-77: open(temp_path, "wb") creates or truncates the file
WriteOpen ==
    /\ swPc = "built"
    /\ fs' = [fs EXCEPT ![temp_path] = File(<<>>, 0)]
    /\ swPc' = "open"
    /\ UNCHANGED <<swStore, swPath, swBytes, swSynced, swRetried, srMeta,
                   srGot>>
    /\ UNCHANGED notSst

\* write, lines 78-80: f.write(...); part of the bytes may reach the file
\* before the flush
WriteData ==
    /\ swPc = "open"
    /\ \E n \in CutPoints(swBytes) :
          fs' = [fs EXCEPT ![temp_path] = File(Prefix(swBytes, n), 0)]
    /\ swPc' = "written"
    /\ UNCHANGED <<swStore, swPath, swBytes, swSynced, swRetried, srMeta,
                   srGot>>
    /\ UNCHANGED notSst

\* write, line 81: f.flush()
WriteFlush ==
    /\ swPc = "written"
    /\ fs' = [fs EXCEPT ![temp_path] = File(swBytes, 0)]
    /\ swPc' = "flushed"
    /\ UNCHANGED <<swStore, swPath, swBytes, swSynced, swRetried, srMeta,
                   srGot>>
    /\ UNCHANGED notSst

\* write, line 82: os.fsync(f.fileno())
WriteFsync ==
    /\ swPc = "flushed"
    /\ fs' = [fs EXCEPT ![temp_path].synced = Len(fs[temp_path].data)]
    /\ swSynced' = (fs[temp_path].data = swBytes)
    /\ swPc' = "synced"
    /\ UNCHANGED <<swStore, swPath, swBytes, swRetried, srMeta, srGot>>
    /\ UNCHANGED notSst

\* write, the end of the with block: the file is closed
WriteCloseFile ==
    /\ swPc = "synced"
    /\ swPc' = "closed"
    /\ UNCHANGED <<swStore, swPath, swBytes, swSynced, swRetried, fs, srMeta,
                   srGot>>
    /\ UNCHANGED notSst

\* write, line 84: temp_path.rename(path)
WriteRename ==
    /\ swPc = "closed"
    /\ fs' = [p \in Paths |-> IF p = swPath THEN fs[temp_path]
                              ELSE IF p = temp_path THEN NoFile ELSE fs[p]]
    /\ swPc' = "renamed"
    /\ UNCHANGED <<swStore, swPath, swBytes, swSynced, swRetried, srMeta,
                   srGot>>
    /\ UNCHANGED notSst

\* open, write, flush, fsync or rename raises OSError: write propagates it
\* (a failed f.write may have put part of the bytes in the file)
WriteFails ==
    /\ swPc \in {"built", "open", "written", "flushed", "closed"}
    /\ IF swPc = "open"
       THEN \E n \in CutPoints(swBytes) \ {Len(swBytes)} :
               fs' = [fs EXCEPT ![temp_path] = File(Prefix(swBytes, n), 0)]
       ELSE fs' = fs
    /\ swPc' = "failed"
    /\ UNCHANGED <<swStore, swPath, swBytes, swSynced, swRetried, srMeta,
                   srGot>>
    /\ UNCHANGED notSst

\* the caller, having caught the error, calls write(path) again (modelled
\* for one retry)
WriteRetry ==
    /\ swPc = "failed"
    /\ ~swRetried
    /\ swPc' = "start"
    /\ swBytes' = <<>>
    /\ swSynced' = FALSE
    /\ swRetried' = TRUE
    /\ UNCHANGED <<swStore, swPath, fs, srMeta, srGot>>
    /\ UNCHANGED notSst

\* the machine stops during write: the file keeps its synced bytes and any
\* part of the rest; a rename not yet on disk may be undone; every process,
\* a reader too, is gone
Crash ==
    /\ swPc \in {"open", "written", "flushed", "synced", "closed", "renamed"}
    /\ \/ \E p \in Paths :
            /\ fs[p].exists
            /\ \E n \in CutPoints(fs[p].data) :
                  /\ n >= fs[p].synced
                  /\ fs' = [fs EXCEPT ![p] = File(Prefix(fs[p].data, n),
                                                  fs[p].synced)]
       \/ /\ swPc = "renamed"
          /\ temp_path # swPath
          /\ fs' = [p \in Paths |-> IF p = temp_path THEN fs[swPath] ELSE NoFile]
    /\ swPc' = "crashed"
    /\ srMeta' = NoEntry
    /\ srGot' = NoEntry
    /\ UNCHANGED <<swStore, swPath, swBytes, swSynced, swRetried>>
    /\ UNCHANGED notSst

\* the bytes of a block that a media fault may change: the last byte of each
\* header field, the first byte of the compressed data, the last byte of the
\* stored checksum
FaultOffsets(data, offset) ==
    {3, 7, 8, 8 + Unpack(Slice(data, offset, offset + 4)) + 3}

\* after write has returned, one byte of one block of the file changes on disk
\* (bit rot, a torn sector); lookups made before it are forgotten
Corrupt ==
    /\ swPc = "renamed"
    /\ fs[swPath].exists
    /\ LET data == fs[swPath].data
           index_entries == _build_blocks_and_index(swStore).index_entries
       IN  \E i \in DOMAIN index_entries :
             \E d \in FaultOffsets(data, index_entries[i].offset) :
               \E flip \in {1, 128} :
                 LET at == index_entries[i].offset + d + 1
                 IN  fs' = [fs EXCEPT ![swPath].data =
                               [data EXCEPT ![at] = (data[at] + flip) % 256]]
    /\ swPc' = "corrupted"
    /\ srGot' = NoEntry
    /\ UNCHANGED <<swStore, swPath, swBytes, swSynced, swRetried, srMeta>>
    /\ UNCHANGED notSst

\* ------------------------------------------------------------ SSTableReader
Returned(v) == [returned |-> v]

\* SSTableReader._read_exact raises when fewer than n bytes are left at pos
short_read(data, pos, n) == Len(Slice(data, pos, pos + n)) < n

\* SSTableReader._load_metadata: footer, then bloom filter, then sparse index
_load_metadata(data) ==
    IF Len(data) < SSTableFooter_SIZE THEN Raise("OSError: Invalid argument")
    ELSE
    LET footer == footer_from_bytes(TakeLast(data, SSTableFooter_SIZE))
    IN  IF Raised(footer) THEN footer
        ELSE IF short_read(data, footer.bloom_offset, footer.bloom_size)
        THEN Raise("ValueError: Unexpected end of file reading bloom filter")
        ELSE IF short_read(data, footer.index_offset, footer.index_size)
        THEN Raise("ValueError: Unexpected end of file reading sparse index")
        ELSE IF footer.index_size < 4 THEN Raise("struct.error")
        ELSE [footer |-> footer,
              bloom |-> bloom_from_bytes(
                  Slice(data, footer.bloom_offset,
                        footer.bloom_offset + footer.bloom_size)),
              index |-> index_from_bytes(
                  Slice(data, footer.index_offset,
                        footer.index_offset + footer.index_size))]

\* `for entry in block` (line 67): Block defines iter_entries but no __iter__
iterate_entries(block, key) == Raise("TypeError: 'Block' object is not iterable")

\* get, line 57: stored_checksum != computed_checksum
checksum_unchecked(stored, computed) == FALSE
checksum_differs(stored, computed) == stored # computed

\* SSTableReader.get
reader_get(data, meta, key) ==
    IF ~bloom_contains(meta.bloom, key) THEN Returned(None)
    ELSE
    LET found == find_block_offset(meta.index, key)
        offset == found.offset
    IN  IF found = NoEntry THEN Returned(None)
        ELSE IF short_read(data, offset, 8)
        THEN Raise("ValueError: Unexpected end of file reading block header")
        ELSE
        LET header == Slice(data, offset, offset + 8)
            compressed_size == Unpack(Slice(header, 0, 4))
            uncompressed_size == Unpack(Slice(header, 4, 8))
            compressed_data == Slice(data, offset + 8, offset + 8 + compressed_size)
            stored_checksum ==
                Unpack(Slice(data, offset + 8 + compressed_size,
                             offset + 12 + compressed_size))
        IN  IF short_read(data, offset + 8, compressed_size)
            THEN Raise("ValueError: Unexpected end of file reading compressed data")
            ELSE IF short_read(data, offset + 8 + compressed_size, 4)
            THEN Raise("ValueError: Unexpected end of file reading checksum")
            ELSE IF checksum_differs(stored_checksum,
                                     xxh32(header \o compressed_data))
            THEN Raise("ValueError: Block checksum mismatch")
            ELSE iterate_entries(Block(compressed_data, uncompressed_size), key)

\* SSTableReader.__contains__: self.get(key) is not None
reader_contains(data, meta, key) ==
    LET r == reader_get(data, meta, key)
    IN  IF Raised(r) THEN r ELSE Returned(r.returned # None)

\* SSTableReader(path): open the file at the final path, load the metadata
SstOpen ==
    /\ srMeta = NoEntry
    /\ fs[swPath].exists
    /\ srMeta' = _load_metadata(fs[swPath].data)
    /\ UNCHANGED <<swStore, swPath, swBytes, swPc, swSynced, swRetried, fs,
                   srGot>>
    /\ UNCHANGED notSst

\* reader.get(key); the modelled reader makes one lookup
SstGet ==
    /\ srMeta # NoEntry
    /\ srGot = NoEntry
    /\ ~Raised(srMeta)
    /\ \E i \in DOMAIN LookupKeys :
          srGot' = [op |-> "get", key |-> LookupKeys[i],
                    out |-> reader_get(fs[swPath].data, srMeta, LookupKeys[i])]
    /\ UNCHANGED <<swStore, swPath, swBytes, swPc, swSynced, swRetried, fs,
                   srMeta>>
    /\ UNCHANGED notSst

\* key in reader
SstContains ==
    /\ srMeta # NoEntry
    /\ srGot = NoEntry
    /\ ~Raised(srMeta)
    /\ \E i \in DOMAIN LookupKeys :
          srGot' = [op |-> "contains", key |-> LookupKeys[i],
                    out |-> reader_contains(fs[swPath].data, srMeta,
                                            LookupKeys[i])]
    /\ UNCHANGED <<swStore, swPath, swBytes, swPc, swSynced, swRetried, fs,
                   srMeta>>
    /\ UNCHANGED notSst

SstNext ==
    \/ WriteBuild
    \/ WriteOpen
    \/ WriteData
    \/ WriteFlush
    \/ WriteFsync
    \/ WriteCloseFile
    \/ WriteRename
    \/ WriteFails
    \/ WriteRetry
    \/ Crash
    \/ Corrupt
    \/ SstOpen
    \/ SstGet
    \/ SstContains

SstSpec == SstInit /\ [][SstNext]_vars

\* ---------------------------------------------------------------- claims
\* tasks whose flush the worker has completed (dequeued and iterated)
Finished == Len(flushLog) - (IF workerPc = "flushing" THEN 1 ELSE 0)

\* the tables the Memtable references, oldest first: queued stores, then _store
Tables ==
    LET q == SelectSeq(_immutable_stores, LAMBDA t : t # NoTask)
    IN  [i \in 1..Len(q) |-> q[i].store] \o <<_store>>

Max(S) == CHOOSE x \in S : \A y \in S : y <= x

\* C1: a get(key) issued after a put/delete of key has returned, and before
\* any later put/delete of that key, returns exactly the entry written.
C1_ReadYourWrite == \A k \in DOMAIN lastWrite : get(k) = lastWrite[k]

\* C2: every rotated table whose flush has not completed is still in the
\* immutable queue (and so visible to get).
C2_QueuedUntilFlushed ==
    \A n \in 1..rotations :
        (\A i \in 1..Finished : flushLog[i].id # n)
        => \E i \in DOMAIN _immutable_stores :
              /\ _immutable_stores[i] # NoTask
              /\ _immutable_stores[i].id = n

\* C3: get returns the entry of the newest table holding the key (mutable
\* first, then the queue newest to oldest), absent only when no table holds
\* it; and after a delete with seq_no s, until a later put of the key, get
\* returns a tombstone with seq_no >= s.
C3_NewestHitAndTombstone ==
    \A k \in Keys :
        LET holding == {i \in DOMAIN Tables : k \in DOMAIN Tables[i]}
        IN  /\ IF holding = {} THEN get(k) = NoEntry
               ELSE get(k) = Tables[Max(holding)][k]
            /\ (k \in DOMAIN lastWrite /\ lastWrite[k].value = None)
               => /\ get(k) # NoEntry
                  /\ get(k).value = None
                  /\ get(k).seq_no >= lastWrite[k].seq_no

\* C4: among the entries of a key still held by the Memtable's tables, get
\* returns the one with the largest seq_no.
C4_LargestSeqNoWins ==
    \A k \in Keys :
        LET held == {Tables[i][k] : i \in {j \in DOMAIN Tables : k \in DOMAIN Tables[j]}}
        IN  held # {} => /\ get(k) \in held
                         /\ \A e \in held : e.seq_no <= get(k).seq_no

\* C5: every queued FlushTask's checkpoint_seq_no is the maximum seq_no among
\* the entries of its store.
C5_CheckpointIsMax ==
    \A i \in DOMAIN _immutable_stores :
        LET t == _immutable_stores[i]
        IN  t # NoTask =>
              t.checkpoint_seq_no = Max({t.store[k].seq_no : k \in DOMAIN t.store})

\* C6: a put/delete whose post-insert size is >= 4 MiB appends, in the same
\* step, exactly one FlushTask holding the old table with the new entry,
\* installs an empty table, zeroes the size and leaves the worker notified; one
\* below 4 MiB does not rotate; so the accounted size is always < 4 MiB.
C6_EagerRotation ==
    /\ [](_size_bytes < 4 * 1024 * 1024)
    /\ [][\A w \in Writers :
            (pending[w] # <<>> /\ pending'[w] = <<>>) =>
              LET key == pending[w][1].key
                  entry == pending[w][1].entry
                  inserted == SetItem(_store, key, entry)
                  n == Len(_immutable_stores)
              IN  IF SizeAfterInsert(key, entry) >= 4 * 1024 * 1024
                  THEN /\ Len(_immutable_stores') = n + 1
                       /\ SubSeq(_immutable_stores', 1, n) = _immutable_stores
                       /\ _immutable_stores'[n + 1] # NoTask
                       /\ _immutable_stores'[n + 1].store = inserted
                       /\ _store' = SortedDict
                       /\ _size_bytes' = 0
                       /\ workerPc' # "blocked"
                  ELSE /\ _immutable_stores' = _immutable_stores
                       /\ _store' = inserted
                       /\ _size_bytes' = SizeAfterInsert(key, entry)]_vars

\* C6 witness: a rotation has just happened while an older task is queued
C6_Witness ==
    /\ rotations >= 2
    /\ _store = SortedDict
    /\ _size_bytes = 0
    /\ Len(_immutable_stores) >= 2
    /\ _immutable_stores[Len(_immutable_stores)] # NoTask
    /\ _immutable_stores[Len(_immutable_stores)].id = rotations

\* C7: the worker dequeues FlushTasks in rotation order: the i-th task it
\* dequeues is the i-th table that was rotated.
C7_FlushInRotationOrder == \A i \in DOMAIN flushLog : flushLog[i].id = i

\* C7 witness: the worker has dequeued and flushed two tables
C7_Witness == Finished >= 2

\* C8: close() returns only after the worker has flushed every task enqueued
\* before the sentinel and has exited; and with a fair worker a close() that
\* has enqueued the sentinel eventually returns.
C8_CloseDrainsAndReturns ==
    /\ [](closePc = "returned" =>
            /\ workerPc = "exited"
            /\ \A n \in 1..rotationsAtClose :
                  \E i \in 1..Finished : flushLog[i].id = n)
    /\ (closePc = "joining") ~> (closePc = "returned")

\* C8 witness: close() has returned after the worker drained two tasks that
\* were enqueued before the sentinel
C8_Witness ==
    /\ closePc = "returned"
    /\ rotationsAtClose >= 2
    /\ Finished = rotationsAtClose

\* C9: no put, delete or get is accepted after close() has returned.
C9_RejectedAfterClose == ~acceptedAfterClose

\* C10: for every task the worker has finished, an SSTable was written and
\* then checkpoint(checkpoint_seq_no) was called once, in flush order.
C10_CheckpointAfterFlush ==
    /\ Len(sstables) = Finished
    /\ checkpoints = [i \in 1..Finished |-> flushLog[i].checkpoint_seq_no]

\* the entries of a queue, without the sentinel
WalFrames(q) == SelectSeq(q, LAMBDA x : x # NoTask)

\* C11: when close() has returned, every frame whose append() had returned
\* by then is in the file and covered by a completed fsync.
C11_CloseIsDurable ==
    walClosePc = "returned" =>
        /\ walSynced = Len(walFile)
        /\ walFile = Join(walAckedAtReturn)

SameValue(a, b) == IF a = None THEN b = None ELSE a = b

\* C15: from_bytes(e.to_bytes()) has e's seq_no, op_type, key and value, and
\* to_bytes() of the result is the frame again, byte for byte.
C15_RoundTrip ==
    (cKind = "intact" /\ cOut # NoEntry) =>
        /\ ~Raised(cOut)
        /\ cOut.seq_no = cEntry.seq_no
        /\ cOut.op_type = cEntry.op_type
        /\ cOut.key = cEntry.key
        /\ SameValue(cOut.value, cEntry.value)
        /\ cAgain = cFrame

\* C16: from_bytes of a frame with one byte of its payload or of its stored
\* checksum changed raises the CRC32 mismatch error.
C16_ByteChangeDetected ==
    (cKind \in {"payload", "crc"} /\ cOut # NoEntry) =>
        cOut = Raise("ValueError: CRC32 mismatch")

\* C16 witness: a frame with a changed payload byte has been parsed
C16_Witness ==
    /\ cKind = "payload"
    /\ cOut # NoEntry
    /\ cFrame # to_bytes(cEntry)

\* the entries of a and b agree field by field
SameEntries(a, b) ==
    /\ Len(a) = Len(b)
    /\ \A i \in DOMAIN a :
          /\ a[i].seq_no = b[i].seq_no
          /\ a[i].op_type = b[i].op_type
          /\ a[i].key = b[i].key
          /\ SameValue(a[i].value, b[i].value)

\* C13: iterating a file with a valid header and whole frames raises nothing
\* and yields the written entries, in file order, and then stops.
C13_YieldsWrittenEntries ==
    (rdHeader = "valid" /\ rdCut = 0) =>
        /\ rdState # "raised"
        /\ Len(rdYielded) <= Len(rdEntries)
        /\ SameEntries(rdYielded, SubSeq(rdEntries, 1, Len(rdYielded)))
        /\ rdState = "stopped" => Len(rdYielded) = Len(rdEntries)

\* C14: when a crash cut the last frame short, iteration yields the entries
\* before it and stops cleanly, raising nothing.
C14_TruncatedTailStopsCleanly ==
    (rdHeader = "valid" /\ rdCut > 0) =>
        /\ rdState # "raised"
        /\ rdState = "stopped" =>
              SameEntries(rdYielded, SubSeq(rdEntries, 1, Len(rdEntries) - 1))

\* the header bytes are 32, start with WALX, and carry a version that is not 0
HeaderOK(data) ==
    /\ Len(data) = 32
    /\ SubSeq(data, 1, 4) = <<87, 65, 76, 88>>
    /\ SubSeq(data, 5, 8) # <<0, 0, 0, 0>>

\* C17: WALHeader.from_bytes raises exactly for bytes that are not a 32-byte
\* WALX header of non-zero version; constructing a WALReader on a file whose
\* first 32 bytes are not such a header raises, and it yields no entry.
C17_HeaderValidated ==
    /\ hdrOut # NoEntry => (Raised(hdrOut.out) <=> ~HeaderOK(hdrOut.data))
    /\ rdState # "new" =>
          IF HeaderOK(SubSeq(rdFile, 1, Min(32, Len(rdFile))))
          THEN rdError \notin {"ValueError: Truncated WAL file",
                               "ValueError: Invalid WAL header"}
          ELSE /\ rdState = "raised"
               /\ rdError \in {"ValueError: Truncated WAL file",
                               "ValueError: Invalid WAL header"}
               /\ rdYielded = <<>>

\* C17 witness: a version-0 header was refused by from_bytes and by the reader
C17_Witness ==
    /\ rdHeader = "version"
    /\ hdrOut # NoEntry
    /\ hdrOut.out = Raise("ValueError: Invalid WAL version")
    /\ rdState = "raised"
    /\ rdError = "ValueError: Invalid WAL header"

\* the value the store holds for a key: [value |-> v], or NoEntry
StoredValue(key) ==
    IF \E i \in DOMAIN swStore : swStore[i].key = key
    THEN [value |-> swStore[CHOOSE i \in DOMAIN swStore :
                                swStore[i].key = key].entry.value]
    ELSE NoEntry

\* a reader of the table write has put at the final path answered a get
GotFromWritten == swPc = "renamed" /\ srGot # NoEntry /\ srGot.op = "get"

\* C18: on a table written by write, get(k) returns the written value for
\* every key stored with a value and None (absent) for every key not in the
\* store, for one block or several.
C18_WriteReadRoundTrip ==
    GotFromWritten =>
        LET stored == StoredValue(srGot.key)
        IN  IF stored = NoEntry THEN srGot.out = Returned(None)
            ELSE stored.value # None =>
                    /\ ~Raised(srGot.out)
                    /\ SameValue(srGot.out.returned, stored.value)

\* C19: get has three outcomes that can be told apart: the value of a key
\* stored with a value, a tombstone marker for a key stored as a tombstone
\* (not the None that get returns for an absent key), None for an absent key.
C19_ThreeOutcomes ==
    GotFromWritten =>
        LET stored == StoredValue(srGot.key)
        IN  /\ ~Raised(srGot.out)
            /\ stored = NoEntry <=> srGot.out = Returned(None)
            /\ (stored # NoEntry /\ stored.value # None) =>
                  SameValue(srGot.out.returned, stored.value)

\* C20: at every point of write, crashes and I/O failures included, the final
\* path holds no file, or the complete file, fsynced, ending in the footer
\* with magic SEGMTSST.
C20_AtomicPublication ==
    (fs[swPath].exists /\ swPc # "corrupted") =>
        /\ swBytes # <<>>
        /\ fs[swPath].data = swBytes
        /\ fs[swPath].synced = Len(swBytes)
        /\ swSynced
        /\ TakeLast(fs[swPath].data, 8) = <<83, 69, 71, 77, 84, 83, 83, 84>>
        /\ ~Raised(footer_from_bytes(TakeLast(fs[swPath].data, 32)))

\* C21: when an I/O error aborts write, neither the final path nor a temp
\* file remains (the temp file is deleted), and a later retry of write
\* publishes the complete file.
C21_FailedWriteCleansUp ==
    /\ swPc = "failed" => (~fs[swPath].exists /\ ~fs[temp_path].exists)
    /\ (swRetried /\ swPc = "renamed") =>
          (fs[swPath].exists /\ fs[swPath].data = swBytes)

\* a retry after a failed write has published the complete file
RetryPublished ==
    /\ swRetried
    /\ swPc = "renamed"
    /\ fs[swPath].exists
    /\ fs[swPath].data = swBytes
    /\ swPath # temp_path

\* the blocks of a file, read one after another from the end of the header
\* to the start of the sparse index
RECURSIVE BlocksFrom(_, _, _)
BlocksFrom(data, pos, end) ==
    IF pos >= end THEN <<>>
    ELSE LET compressed_size == Unpack(Slice(data, pos, pos + 4))
             size == 8 + compressed_size + 4
         IN  <<block_from_bytes(Slice(data, pos, pos + size))>>
             \o BlocksFrom(data, pos + size, end)
FileBlocks(data) ==
    BlocksFrom(data, SSTableHeader_SIZE,
               footer_from_bytes(TakeLast(data, SSTableFooter_SIZE)).index_offset)

\* the entries of all blocks of a file, in file order
FileEntries(data) ==
    LET blocks == FileBlocks(data)
    IN  Join([i \in DOMAIN blocks |-> iter_entries(blocks[i])])

\* write has published its file at the final path
Published == swPc = "renamed" /\ fs[swPath].exists

\* C22: in a file produced by SSTableWriter the keys read block after block
\* are strictly ascending and are exactly the keys of the store, each once.
C22_EveryKeyOnceAscending ==
    Published =>
        LET entries == FileEntries(fs[swPath].data)
        IN  /\ Len(entries) = Len(swStore)
            /\ \A i \in DOMAIN entries : entries[i].key = swStore[i].key
            /\ \A i \in DOMAIN entries :
                  i > 1 => BytesLess(entries[i - 1].key, entries[i].key)

\* C22 witness: a published file of several blocks, the last one partial
C22_Witness ==
    /\ Published
    /\ Len(FileBlocks(fs[swPath].data)) = 3
    /\ Len(FileEntries(fs[swPath].data)) = 4

\* C23: every key written into a table is contained in the table's bloom
\* filter, as the writer builds it and as the reader reloads it from the
\* file, so the bloom check of get never answers None for a stored key.
C23_NoFalseNegative ==
    Published =>
        /\ \A i \in DOMAIN swStore :
              /\ bloom_contains(
                     bloom_from_keys([j \in DOMAIN swStore |-> swStore[j].key]),
                     swStore[i].key)
              /\ bloom_contains(_load_metadata(fs[swPath].data).bloom,
                                swStore[i].key)
        /\ (srGot # NoEntry /\ StoredValue(srGot.key) # NoEntry) =>
              srGot.out # Returned(None)

\* C23 witness: a reader of a published table of four keys looked up the
\* last stored key and went past the bloom check
C23_Witness ==
    /\ Published
    /\ Len(swStore) = 4
    /\ srGot # NoEntry
    /\ srGot.op = "get"
    /\ srGot.key = swStore[4].key
    /\ Raised(srGot.out)

\* the bytes of the block that get reads for a key: from the offset the
\* sparse index gives to the end of the block's stored checksum
BlockRead(data, meta, key) ==
    LET offset == find_block_offset(meta.index, key).offset
        compressed_size == Unpack(Slice(data, offset, offset + 4))
    IN  Slice(data, offset, offset + 8 + compressed_size + 4)

\* get(key) goes to a block: the key passes the bloom filter and the sparse
\* index has a block for it
ReadsBlock(meta, key) ==
    /\ bloom_contains(meta.bloom, key)
    /\ find_block_offset(meta.index, key) # NoEntry

\* C24: get on a block whose stored checksum differs from the checksum
\* recomputed over its header and compressed data raises the checksum
\* mismatch error, and returns no value, tombstone or absent from the block.
C24_CorruptBlockRaises ==
    (/\ swPc = "corrupted"
     /\ srGot # NoEntry
     /\ srGot.op = "get"
     /\ ReadsBlock(srMeta, srGot.key)
     /\ block_from_bytes(BlockRead(fs[swPath].data, srMeta, srGot.key))
           = Raise("ValueError: Block checksum mismatch"))
    => srGot.out = Raise("ValueError: Block checksum mismatch")

\* C24 witness: a get went to the second block of a table after a byte of
\* that block's compressed data had changed, and raised the mismatch
C24_Witness ==
    /\ swPc = "corrupted"
    /\ Len(swStore) = 4
    /\ srGot # NoEntry
    /\ srGot.op = "get"
    /\ srGot.key = swStore[3].key
    /\ fs[swPath].data # swBytes
    /\ Slice(fs[swPath].data, 0, 4164 + 8) = Slice(swBytes, 0, 4164 + 8)
    /\ srGot.out = Raise("ValueError: Block checksum mismatch")

\* the bytes from a file offset to the end of the block that starts there
BlockAt(data, offset) ==
    Slice(data, offset,
          offset + 8 + Unpack(Slice(data, offset, offset + 4)) + 4)

\* C29: the sparse index of a written file has one entry per data block, in
\* block order; the first offset is 17, each next offset is the previous one
\* plus the on-disk size of the previous block, and the block that starts at
\* an entry's offset begins with the entry's key.
C29_IndexEntryPerBlock ==
    Published =>
        LET data == fs[swPath].data
            index == _load_metadata(data).index
            blocks == FileBlocks(data)
        IN  /\ Len(index) = Len(blocks)
            /\ \A i \in DOMAIN index :
                  index[i].offset =
                      IF i = 1 THEN SSTableHeader_SIZE
                      ELSE index[i - 1].offset + 8 + Len(blocks[i - 1].data) + 4
            /\ \A i \in DOMAIN index :
                  /\ block_from_bytes(BlockAt(data, index[i].offset)) = blocks[i]
                  /\ iter_entries(blocks[i])[1].key = index[i].key

\* C29 witness: a published file whose index has three entries, the third at
\* offset 8290 with the fourth key of the store
C29_Witness ==
    /\ Published
    /\ Len(swStore) = 4
    /\ Len(_load_metadata(fs[swPath].data).index) = 3
    /\ _load_metadata(fs[swPath].data).index[3] =
          SparseIndexEntry(swStore[4].key, 8290)

\* C28: every batch the WAL worker writes holds 1 to 256 entries and is
\* written with one write, then one flush, then one fsync; whenever the
\* worker is about to collect a batch, is collecting one or has exited, every
\* byte of the file is covered by a completed fsync.
C28_BatchWrittenAndSynced ==
    /\ \A i \in DOMAIN walLog :
          /\ walLog[i].op = CASE i % 3 = 1 -> "write"
                               [] i % 3 = 2 -> "flush"
                               [] OTHER -> "fsync"
          /\ walLog[i].op = "write" =>
                (walLog[i].n >= 1 /\ walLog[i].n <= MAX_BATCH)
    /\ walPc = "write" => (Len(walBatch) >= 1 /\ Len(walBatch) <= MAX_BATCH)
    /\ walPc = "fsync" => Len(walLog) % 3 = 2
    /\ walPc \in {"get", "batching", "write", "exited"} =>
          (Len(walLog) % 3 = 0 /\ walSynced = Len(walFile))

\* C28 witness: the worker wrote and fsynced a batch of 256 entries, then a
\* batch of 1, and exited
C28_Witness ==
    /\ walPc = "exited"
    /\ Len(walLog) = 6
    /\ walLog[1] = Call("write", MAX_BATCH)
    /\ walLog[4] = Call("write", 1)
    /\ walSynced = Len(walFile)
    /\ walFile = Join(walAccepted)

\* the sum over the keys ks of a store of key length + 8 + value length
RECURSIVE StoreBytes(_, _)
StoreBytes(store, ks) ==
    IF ks = {} THEN 0
    ELSE LET k == CHOOSE x \in ks : TRUE
             v == store[k].value
         IN  Len(k) + 8 + (IF v = None THEN 0 ELSE len(v))
             + StoreBytes(store, ks \ {k})

\* C26: outside the lock the accounted size equals the sum, over the entries
\* of the mutable table, of key length + 8 + value length (0 for a
\* tombstone); replaced entries and immutable tables are not counted.
C26_SizeIsSumOfEntries ==
    _size_bytes = StoreBytes(_store, DOMAIN _store)

\* C26 witness: the second write replaced the entry of the first in the
\* mutable table while another key was there too, and no rotation happened
C26_Witness ==
    /\ rotations = 0
    /\ nextSeq = 4
    /\ \A w \in Writers : pending[w] = <<>>
    /\ DOMAIN _store = Keys
    /\ {_store[k].seq_no : k \in Keys} = {2, 3}
    /\ \E k \in Keys : _store[k].seq_no = 3 /\ _store[k].value = None
    /\ _size_bytes > 0

\* in a run: the puts that have returned, the key length, the bytes one entry
\* accounts for, and the first entry at which the accounted size reaches the
\* threshold
RunDone == Cardinality(DOMAIN lastWrite)
RunKeyLen == Len(CHOOSE k \in DOMAIN lastWrite : TRUE)
RunEntryBytes == RunKeyLen + 8 + 4 * 1024
RunTrigger == (MAX_SIZE_BYTES + RunEntryBytes - 1) \div RunEntryBytes

\* the tasks of the rotations so far: queued, or held by the worker
RunTasks ==
    {_immutable_stores[i] : i \in DOMAIN _immutable_stores}
    \cup (IF task = NoTask THEN {} ELSE {task})

\* C25 as stated: after the 1024 entries there has been exactly one rotation
\* and the rotated table's checkpoint_seq_no is the maximum seq_no written.
C25_CheckpointIsLastWritten ==
    RunDone = RunEntries =>
        /\ rotations = 1
        /\ \A i \in DOMAIN flushLog : flushLog[i].checkpoint_seq_no = RunEntries
        /\ \A t \in RunTasks : t.checkpoint_seq_no = RunEntries

\* C25 amended: the run causes exactly one rotation, at the first entry that
\* brings the accounted size (key length + 8 + 4096 per entry) to 4 MiB, which
\* comes before the last entry; the rotated table holds the entries up to
\* that one and its checkpoint_seq_no is that entry's seq_no, the maximum in
\* the rotated table; the later entries are in the fresh mutable table.
C25_OneRotationAtThreshold ==
    RunDone > 0 =>
        /\ RunTrigger < RunEntries
        /\ rotations = (IF RunDone >= RunTrigger THEN 1 ELSE 0)
        /\ \A i \in DOMAIN flushLog :
              flushLog[i].checkpoint_seq_no = RunTrigger
        /\ \A t \in RunTasks :
              /\ t.checkpoint_seq_no = RunTrigger
              /\ {t.store[k].seq_no : k \in DOMAIN t.store} = 1..RunTrigger
        /\ RunDone >= RunTrigger =>
              {_store[k].seq_no : k \in DOMAIN _store} = (RunTrigger + 1)..RunDone

\* C25 witness: all entries of the run are written, the one rotated table
\* is still queued and the mutable table holds the entries after it
C25_Witness ==
    /\ RunDone = RunEntries
    /\ rotations = 1
    /\ Len(_immutable_stores) = 1
    /\ _immutable_stores[1].checkpoint_seq_no < RunEntries
    /\ _store # SortedDict

\* C27: the flush worker holds the memtable lock only between acquiring it
\* and popping the head task (it gives it up inside wait()); while it
\* iterates a table, and after it has returned, it does not hold the lock,
\* so when no other caller is inside a with block the lock is free for a
\* put, delete or get.
C27_WorkerFlushesUnlocked ==
    /\ mutex = "worker" <=> wkPc = "locked"
    /\ (wkPc = "flushing" /\ \A w \in Writers : thPc[w] # "locked") =>
          mutex = "free"

\* C27 witness: a put is inside its with block, holding the lock, while the
\* worker iterates a rotated table
C27_Witness ==
    /\ wkPc = "flushing"
    /\ wkTask # NoTask
    /\ \E w \in Writers :
          /\ thPc[w] = "locked"
          /\ thOp[w].op = "put"
          /\ mutex = w

\* the store objects held by FlushTasks: queued, or the worker's local task
TaskStores ==
    {lkQueue[i].store : i \in {j \in DOMAIN lkQueue : lkQueue[j] # NoTask}}
    \cup (IF wkTask = NoTask THEN {} ELSE {wkTask.store})

\* C30: no step changes the contents of a store a FlushTask holds, queued or
\* being iterated by the worker; puts and deletes after the rotation change
\* only the fresh mutable table.
C30_RotatedStoreFrozen ==
    [][\A id \in TaskStores : heap'[id] = heap[id]]_vars

\* C30 witness: a put after the rotation has written into the fresh mutable
\* table while the worker iterates the rotated store, which is a different
\* object and still holds what it held at the rotation
C30_Witness ==
    /\ wkPc = "flushing"
    /\ wkTask # NoTask
    /\ wkTask.store # cur
    /\ heap[cur] # SortedDict
    /\ heap[wkTask.store] # SortedDict
    /\ \A k \in DOMAIN heap[cur] :
          heap[cur][k].seq_no > wkTask.checkpoint_seq_no

\* a thread is in the with block of close
InClose(w) == thPc[w] = "locked" /\ thOp[w].op = "close"

\* C31: close() neither rotates nor flushes the mutable table: the with
\* block of close leaves the mutable table, its contents and the accounted
\* size as they are and queues no table, and the table that was the mutable
\* table when close held the lock is never handed to the flush worker.
C31_CloseLeavesMutableTable ==
    /\ [][\A w \in Writers : (InClose(w) /\ thPc'[w] = "joining") =>
            /\ cur' = cur
            /\ heap' = heap
            /\ lkSize' = lkSize
            /\ SelectSeq(lkQueue', LAMBDA t : t # NoTask)
                 = SelectSeq(lkQueue, LAMBDA t : t # NoTask)]_vars
    /\ []((curAtClose # 0 /\ wkTask # NoTask) => wkTask.store # curAtClose)

\* C31 witness: close ran with an entry in the mutable table and the worker
\* exited at the sentinel; a later put rotated that table, which sits in
\* the queue behind the sentinel's place with nobody to take it
C31_Witness ==
    /\ curAtClose # 0
    /\ wkPc = "exited"
    /\ \A w \in Writers : thPc[w] = "idle"
    /\ lkQueue # <<>>
    /\ lkQueue[1] # NoTask
    /\ lkQueue[1].store = curAtClose
    /\ lkQueue[1].checkpoint_seq_no = 3

====
